---- MODULE Spec2Model ----
(***************************************************************************)
(* Model of the Kognys research graph (kognys/graph/builder.py), of the    *)
(* UnifiedExecutor that runs it and fans its events out                    *)
(* (kognys/graph/unified_executor.py) and of the token-bucket RateLimiter  *)
(* (kognys/services/rate_limiter.py).                                      *)
(*                                                                         *)
(* A Run is one call of execute_sync or execute_streaming.  The graph is   *)
(* seen through the events of graph.astream_events: for each node one      *)
(* execution of its body, then one on_chain_stream event per token chunk   *)
(* the node yields, then one on_chain_end event carrying its output.       *)
(* Text values are abstracted to their truthiness (TRUE = non-empty);      *)
(* an event is (event_type, agent, id), where id is the emission number    *)
(* and stands for the event's timestamp and data.                          *)
(***************************************************************************)
EXTENDS Integers, Sequences, FiniteSets, TLC

\* ---------------------------------------------------------------- bounds
\* Routing decisions (conditional edges) one Run may take in the model.
MaxRoutings == 4
\* Criticisms the challenger may return, tokens the orchestrator may stream.
MaxCriticisms == 1
MaxAnswerTokens == 2
\* Routing decisions of a Run that is watched by log-stream consumers.
LogRoutings == 1
\* Heartbeats the log-stream consumers may receive in the model, in total.
MaxHeartbeats == 1
\* get_recent_events(limit=50): the default limit, scaled down; the buffer
\* capacity _max_events (100 in the code) is twice it.
RecentLimit == 2

\* The largest max_retries a ledger operation is called with in the model.
MaxAttempts == 3

\* RateLimiter, in fixed point: Unit units make one token, time advances in
\* ticks, RefillRate units are refilled per tick (requests_per_second) and
\* BurstSize tokens fill the bucket (burst_size).
Unit == 2
RefillRate == 1
BurstSize == 2
\* Ticks of the clock and calls of acquire the model follows.
MaxTime == 5
MaxAcquires == 4

\* Calls of retriever.node the model follows.
MaxSearches == 2

\* Calls of execute_sync / execute_streaming on the one executor.
MaxRuns == 2
\* Routing decisions of each of several Runs followed one after another.
RunsRoutings == 2

\* Calls of _emit_event each of two concurrent Runs makes in the model.
MaxEmits == 2

\* Calls of async_finish_blockchain_operations, and heartbeats of the
\* transaction stream, that the model follows.
MaxFinishes == 2
MaxTxBeats == 1

\* ------------------------------------------------------ program constants
\* "If the revision_count is 2 or more ... Choose FINALIZE" (orchestrator.py)
MaxRevisions == 2
\* "for i in range(10)": the polls of check_task_exists before a join.
PollLimit == 10
\* "max_retries: int = 3": the default of create_task and join_task.
DefaultRetries == 3

VARIABLES
    \* --- the Run (graph execution seen by the executor)
    mode,            \* "none" | "sync" | "streaming": the entry point of the Run
    pc,              \* "idle", a node name, a router name, "finish", "done", "failed"
    phase,           \* "run": node body to execute; "stream": chunks then on_chain_end
    chunks,          \* token chunks the running node still yields
    output,          \* the partial state the running node returns
    state,           \* KognysState of the Run
    input_question,  \* question attribute of the KognysState object handed to the node
    graph_events,    \* on_chain_stream / on_chain_end events of astream_events so far
    keepsUndeclared, \* does the state graph keep keys KognysState does not declare
    executed,        \* nodes whose body ran in this Run
    sinceNoDocs,     \* nodes whose body ran after the last empty retrieval
    noDocsSeen,      \* the retriever has reported "No documents found"
    routings,        \* conditional routing decisions taken in this Run
    rounds,          \* times the Run was routed back into the debate loop
    budget,          \* routing decisions the model follows a Run for
    raised,          \* "none" or the class of the exception that ended the Run
    raisedBy,        \* "none" or the node or router that raised it
    final_result,    \* execute_*: last on_chain_end output
    yielded,         \* events execute_streaming yielded to its consumer
    \* --- UnifiedExecutor
    recent_events,
    event_callbacks,
    stop_event,
    research_completed_emitted,
    clock,           \* number of events emitted so far
    \* --- log-stream consumers (stream_recent_events), one per consumer id
    cpc,             \* "none" | "replay" | "live"
    subscribed_at,   \* number of events emitted when the consumer took its snapshot
    replay,          \* events of the history snapshot not yet yielded
    event_queue,     \* the consumer's queue.Queue
    delivered,       \* events the consumer's generator has yielded
    beats,           \* heartbeats yielded to log-stream consumers so far
    \* --- RateLimiter (one bucket) and the callers of acquire
    tokens,          \* in units of 1/Unit token
    last_refill,
    lock,            \* 0 (free) or the caller inside "async with self.lock"
    waiters,         \* callers waiting for the lock, in arrival order
    stats,           \* total_requests, throttled_requests
    now,             \* time.monotonic(), in ticks
    apc,             \* per caller: "idle" | "waiting" | "check" | "sleep"
    priority,        \* per caller: the priority of its current acquire
    wake_at,         \* per caller: the time its asyncio.sleep ends
    refilled,        \* units the refills have added to the bucket so far
    \* --- one ledger operation of membase_client
    lop,             \* "none" or the function called
    lpc,             \* "idle" | "check" | "poll" | "call" | "wait" | "done"
    max_retries,     \* its max_retries argument
    script,          \* the answers the ledger will give to its calls, in order
    attempt,         \* the loop variable of "for attempt in range(max_retries)"
    calls,           \* invocations of the underlying ledger call so far
    polls,           \* check_task_exists calls so far
    task_seen,       \* a check_task_exists call has returned True
    waits,           \* the sleeps between attempts, in seconds, in order
    lresult,         \* "none" | "success" | "failure": what the function returned
    \* --- generate_sse_stream: the SSE client of a streaming Run
    sse_pc,          \* "open" | "closed" (the stream ended) | "gone" (disconnected)
    sse_taken,       \* events of execute_streaming taken from the queue so far
    sse_out,         \* what generate_sse_stream has yielded to the client
    sse_quiet,       \* no event was yielded to the client since the last heartbeat
    \* --- api_main.create_paper: one POST /papers request
    ppc,             \* "idle" | "validator" | "graph" | "except" | "respond" | "done"
    presponse,       \* the ValidatorResponse the LLM returns for the question
    prest,           \* what the graph after the validator does
    pexc,            \* the exception ainvoke raised: [type, msg, by], or NoExc
    pfinal,          \* final_state_result["final_answer"]: "" or "answer"
    pstatus,         \* HTTP status of the reply, 0 before it
    \* --- callables given to add_event_callback
    raising,         \* the consumers whose callback raises whenever it is called
    \* --- retriever.node: the searches of one call after another
    rpc,             \* "idle" | "openalex" | "arxiv" | "semantic_scholar"
    rquery,          \* the query of the call in progress
    cache,           \* the <<source, query>> keys with cached results
    net,             \* acquires and API requests made so far, in order
    searches,        \* calls of retriever.node completed
    \* --- the Runs of one process on the module-level unified_executor
    run_no,          \* calls of execute_sync / execute_streaming before this one
    run_from,        \* the id of the last event emitted before this Run began
    \* --- _emit_event called from the threads of Runs in progress together
    epc,             \* per thread: "idle" | "stored" (lock released) | "callbacks"
    eidx,            \* per thread: position of its "for callback in" loop
    eown,            \* per thread: the event its call of _emit_event built
    emits,           \* per thread: calls of _emit_event begun
    \* --- transaction_events and GET /transactions/stream
    tx_queue,        \* _transaction_queue: the events put and not yet got
    tx_pc,           \* per stream consumer: "none" | "connected"
    tx_filter,       \* per stream consumer: its task_id parameter, or "none"
    tx_out,          \* per stream consumer: what its generator has yielded
    tx_beats,        \* transaction_heartbeat events yielded, in total
    \* --- membase_client.async_finish_blockchain_operations
    fin_pc,          \* "idle" | "finish_task" | "after" | "returned" | "raised"
    fin_task,        \* the task_id of the call
    finish_success,  \* what async_finish_task returned
    fin_events,      \* the transaction events the call has emitted
    fin_calls,       \* calls of async_finish_blockchain_operations begun
    \* --- input_validator.node: the on-chain task of the Run
    vpc,             \* "idle" | "create" | "join" | "return"
    vlog,            \* the ledger functions called and what each returned
    update_dict      \* the keys of the dict the node is about to return

runVars == <<mode, pc, phase, chunks, output, state, input_question, graph_events, keepsUndeclared, budget, executed,
             sinceNoDocs, noDocsSeen, routings, rounds, raised, raisedBy, final_result,
             yielded>>
busVars == <<recent_events, event_callbacks, stop_event,
             research_completed_emitted, clock>>
logVars == <<cpc, subscribed_at, replay, event_queue, delivered, beats>>
limVars == <<tokens, last_refill, lock, waiters, stats, now, apc, priority, wake_at,
             refilled>>
ledVars == <<lop, lpc, max_retries, script, attempt, calls, polls, task_seen, waits,
             lresult>>
sseVars == <<sse_pc, sse_taken, sse_out, sse_quiet>>
\* What the graph, the executor and its log-stream consumers never touch.
papVars == <<ppc, presponse, prest, pexc, pfinal, pstatus>>
regVars == <<raising>>
\* The parts modelled after the executor, the limiter and the ledger.
retVars == <<rpc, rquery, cache, net, searches>>
seqVars == <<run_no, run_from>>
emitVars == <<epc, eidx, eown, emits>>
txVars == <<tx_queue, tx_pc, tx_filter, tx_out, tx_beats>>
finVars == <<fin_pc, fin_task, finish_success, fin_events, fin_calls>>
valVars == <<vpc, vlog, update_dict>>
otherVars == <<regVars, retVars, seqVars, emitVars, txVars, finVars, valVars>>
elsewhere == <<limVars, ledVars, sseVars, papVars, otherVars>>
vars == <<runVars, busVars, logVars, limVars, ledVars, sseVars, papVars, otherVars>>

\* Threads in which a Run calls _emit_event (execute_sync runs its loop in a
\* thread of its own), and the value of a thread that has built no event.
Emitters == {1, 2}

NoEvent == [event_type |-> "none", agent |-> "none", id |-> 0, keys |-> {}]

\* Clients of GET /transactions/stream, and the tasks transactions are for.
TxConsumers == {1, 2}

Tasks == {"T1", "T2"}

\* Calls of stream_recent_events, numbered in the order in which they are made.
LogConsumers == {1, 2}

\* ------------------------------------------------------------ KognysState
KognysStateFields ==
    {"question", "validated_question", "documents", "retrieval_status",
     "draft_answer", "criticisms", "revisions", "transcript", "final_answer"}

NoCriticisms == [n |-> 0, sources |-> FALSE]

\* KognysState(question=..., user_id=...): every other field at its default.
InitialState ==
    [question           |-> "q",
     validated_question |-> FALSE,
     documents          |-> FALSE,
     retrieval_status   |-> "None",
     draft_answer       |-> FALSE,
     criticisms         |-> NoCriticisms,
     revisions          |-> 0,
     transcript         |-> <<>>,
     final_answer       |-> FALSE,
     is_sufficient      |-> "missing"]

\* transcript.append_entry: a copy of the list with one entry more.
append_entry_alone(transcript, agent) == <<agent>>

append_entry(transcript, agent) == Append(transcript, agent)

\* A graph that hands every node the same KognysState object and keeps it.
Merge_keeps_input_object(st, out) ==
    [f \in DOMAIN st |->
        IF f \in DOMAIN out /\ (f \in KognysStateFields \/ keepsUndeclared)
        THEN out[f]
        ELSE IF f = "question" THEN input_question ELSE st[f]]

\* The state graph writes a returned key into the channel of that name; a key
\* that is no field of KognysState has no channel.
Merge(st, out) ==
    [f \in DOMAIN st |->
        IF f \in DOMAIN out /\ (f \in KognysStateFields \/ keepsUndeclared)
        THEN out[f] ELSE st[f]]

\* ------------------------------------------------------------------ graph
Nodes == {"input_validator", "retriever", "synthesizer", "challenger",
          "checklist", "orchestrator", "publisher", "reviser", "summarizer"}

\* A router that ignores the retrieval status.
route_after_retrieval_always_synthesizes(st) == "synthesizer"

route_after_retrieval(st) ==
    IF st.retrieval_status = "No documents found" THEN "orchestrator"
    ELSE "synthesizer"

route_after_checklist(st) ==
    IF st.is_sufficient = "True" THEN "orchestrator"
    ELSE IF st.criticisms.sources THEN "reviser"
    ELSE "summarizer"

\* A graph in which the retriever also has a plain edge to the synthesizer.
Edges_with_fan_out ==
    {<<"input_validator", "retriever">>, <<"synthesizer", "challenger">>,
     <<"challenger", "checklist">>, <<"orchestrator", "publisher">>,
     <<"summarizer", "synthesizer">>, <<"reviser", "retriever">>,
     <<"retriever", "synthesizer">>}

\* add_edge(a, b) between nodes; publisher -> END has no target node.
Edges ==
    {<<"input_validator", "retriever">>, <<"synthesizer", "challenger">>,
     <<"challenger", "checklist">>, <<"orchestrator", "publisher">>,
     <<"summarizer", "synthesizer">>, <<"reviser", "retriever">>}

\* add_conditional_edges(n, router, ...): the node the router of n names; a
\* router that raises names none.
Branches(n, st) ==
    IF n = "retriever" THEN {route_after_retrieval(st)}
    ELSE IF n = "checklist"
    THEN IF st.is_sufficient = "missing" THEN {} ELSE {route_after_checklist(st)}
    ELSE {}

\* The nodes the graph starts once node n has ended with state st.
Triggered(n, st) == {m \in Nodes : <<n, m>> \in Edges} \cup Branches(n, st)

\* add_edge / add_conditional_edges: where control goes when a node has ended.
AfterNode(n) ==
    CASE n = "input_validator" -> "retriever"
      [] n = "retriever"       -> "route_after_retrieval"
      [] n = "synthesizer"     -> "challenger"
      [] n = "challenger"      -> "checklist"
      [] n = "checklist"       -> "route_after_checklist"
      [] n = "orchestrator"    -> "publisher"
      [] n = "publisher"       -> "finish"
      [] n = "summarizer"      -> "synthesizer"
      [] n = "reviser"         -> "retriever"

\* -------------------------------------------------------- UnifiedExecutor
max_events == 2 * RecentLimit

Range(s) == {s[i] : i \in DOMAIN s}

LastN(s, n) == IF Len(s) <= n THEN s ELSE SubSeq(s, Len(s) - n + 1, Len(s))

\* get_recent_events(limit): self._recent_events[-limit:]
get_recent_events(recent, limit) == LastN(recent, limit)

\* log_callback of stream_recent_events: enqueue the newest stored event.
log_callback(q, recent) == IF recent # <<>> THEN Append(q, recent[Len(recent)]) ELSE q

\* The executor state an emission reads and writes, as one value.
Bus == [recent |-> recent_events, clock |-> clock, queues |-> event_queue]

\* The top-level keys of an event dict built by the executor.
EventKeys == {"event_type", "data", "timestamp", "agent"}

EmitEvent_without_eviction(b, event_type, agent) ==
    LET event == [event_type |-> event_type, agent |-> agent, id |-> b.clock + 1,
                  keys |-> EventKeys]
        kept  == Append(b.recent, event)
    IN  [recent |-> kept,
         clock  |-> b.clock + 1,
         queues |-> IF stop_event THEN b.queues
                    ELSE [c \in LogConsumers |->
                            IF c \in Range(event_callbacks) \ raising
                            THEN log_callback(b.queues[c], kept)
                            ELSE b.queues[c]]]

\* The callbacks a "for callback in self.event_callbacks" without the
\* try/except would reach: those registered before the first one that raises.
CalledUntilRaise ==
    {event_callbacks[i] : i \in {j \in DOMAIN event_callbacks :
                                   \A k \in 1..(j - 1) : event_callbacks[k] \notin raising}}

EmitEvent_stops_at_raise(b, event_type, agent) ==
    LET event    == [event_type |-> event_type, agent |-> agent, id |-> b.clock + 1,
                     keys |-> EventKeys]
        appended == Append(b.recent, event)
        kept     == IF Len(appended) > max_events THEN Tail(appended) ELSE appended
    IN  [recent |-> kept,
         clock  |-> b.clock + 1,
         queues |-> IF stop_event THEN b.queues
                    ELSE [c \in LogConsumers |->
                            IF c \in CalledUntilRaise \ raising
                            THEN log_callback(b.queues[c], kept)
                            ELSE b.queues[c]]]

\* _emit_event: store the event, evict the oldest beyond _max_events, then,
\* unless the stop flag is set, call every registered callback, each inside
\* its own try/except: a callback that raises has put nothing on its queue.
EmitEvent(b, event_type, agent) ==
    LET event    == [event_type |-> event_type, agent |-> agent, id |-> b.clock + 1,
                     keys |-> EventKeys]
        appended == Append(b.recent, event)
        kept     == IF Len(appended) > max_events THEN Tail(appended) ELSE appended
    IN  [recent |-> kept,
         clock  |-> b.clock + 1,
         queues |-> IF stop_event THEN b.queues
                    ELSE [c \in LogConsumers |->
                            IF c \in Range(event_callbacks) \ raising
                            THEN log_callback(b.queues[c], kept)
                            ELSE b.queues[c]]]

Commit(b) ==
    /\ recent_events' = b.recent
    /\ clock' = b.clock
    /\ event_queue' = b.queues

\* "with self._events_lock: if self._recent_events: yield self._recent_events[-1]"
YieldLatest(y, b) ==
    IF mode = "streaming" /\ b.recent # <<>>
    THEN Append(y, b.recent[Len(b.recent)]) ELSE y

\* The except-clause of execute_sync / execute_streaming.
EmitFailure(b, exc) ==
    IF exc = "ValueError"
    THEN EmitEvent(b, "validation_error", "input_validator")
    ELSE EmitEvent(b, "error", "system")

\* _emit_node_completion_event(node_name, state)
CompletionEvent(n, out) ==
    IF DOMAIN out = {} THEN "none"
    ELSE IF n = "input_validator" /\ "validated_question" \in DOMAIN out
              /\ out.validated_question THEN "question_validated"
    ELSE IF n = "retriever" /\ "documents" \in DOMAIN out
              /\ out.documents THEN "documents_retrieved"
    ELSE IF n = "synthesizer" /\ "draft_answer" \in DOMAIN out
              /\ out.draft_answer THEN "draft_generated"
    ELSE IF n = "challenger" /\ "criticisms" \in DOMAIN out
              /\ out.criticisms.n > 0 THEN "criticisms_received"
    ELSE IF n = "orchestrator" THEN "orchestrator_decision"
    ELSE IF n = "publisher" /\ "final_answer" \in DOMAIN out
              /\ out.final_answer THEN "research_completed"
    ELSE "none"

EmitCompletion(b, n, out) ==
    IF CompletionEvent(n, out) = "none" THEN b
    ELSE EmitEvent(b, CompletionEvent(n, out), n)

\* "not final_result or not final_result.get('final_answer')"
HasFinalAnswer(fr) == "final_answer" \in DOMAIN fr /\ fr.final_answer

\* ------------------------------------------------------------ RateLimiter
\* Coroutines that call acquire on the one limiter.
Callers == {1, 2}

Priority == {"HIGH", "NORMAL", "LOW"}

\* self.max_tokens = config.burst_size, in units.
max_tokens == BurstSize * Unit

Min(a, b) == IF a <= b THEN a ELSE b
Max(a, b) == IF a >= b THEN a ELSE b

\* _refill_tokens: the bucket after a refill at time t.
refill_tokens_uncapped(tk, last, t) == tk + (t - last) * RefillRate
refill_tokens(tk, last, t) == Min(max_tokens, tk + (t - last) * RefillRate)

\* wait_time = tokens_needed / refill_rate, halved for HIGH and multiplied by
\* 1.5 for LOW; in whole ticks, and a sleep takes at least one tick.
wait_time(tk, prio) ==
    LET tokens_needed == Unit - tk
        ticks == CASE prio = "HIGH"   -> tokens_needed \div (2 * RefillRate)
                   [] prio = "NORMAL" -> tokens_needed \div RefillRate
                   [] prio = "LOW"    -> (3 * tokens_needed) \div (2 * RefillRate)
    IN  Max(1, ticks)

\* ------------------------------------------------- input_validator, /papers
\* Texts an exception message can be; "" is the empty string.
Marker == "Question rejected by validator"
Reasons == {"", Marker, "Question rejected by validator: too vague", "out of scope"}

\* "Question rejected by validator" in str(e)
ContainsMarker(msg) == msg \in {Marker, "Question rejected by validator: too vague"}

ValidatorResponses ==
    [approved : BOOLEAN, revised_question : {"", "q2"}, rejection_reason : Reasons]

NoResponse == [approved |-> TRUE, revised_question |-> "", rejection_reason |-> ""]
NoExc == [type |-> "none", msg |-> "", by |-> "none"]

\* input_validator.node, lines 44-53: the exception it raises, or NoExc.
validator_raises(response) ==
    IF ~response.approved /\ response.revised_question = ""
    THEN [type |-> "ValueError",
          msg  |-> IF response.rejection_reason # "" THEN response.rejection_reason
                   ELSE Marker,
          by   |-> "input_validator"]
    ELSE NoExc

\* The except-clauses of create_paper.
except_status(exc) ==
    IF exc.type = "ValueError" /\ ContainsMarker(exc.msg) THEN 400 ELSE 500

\* create_paper after ainvoke returned: "if not final_answer" -> 400.
return_status(final_answer) == IF final_answer = "" THEN 400 ELSE 200

\* ---------------------------------------------------------------- Init
InitParts ==
    /\ mode = "none" /\ pc = "idle" /\ phase = "run" /\ chunks = 0
    /\ output = <<>>
    /\ state = InitialState
    /\ input_question = InitialState.question
    /\ graph_events = <<>>
    /\ keepsUndeclared \in BOOLEAN
    /\ executed = {} /\ sinceNoDocs = {} /\ noDocsSeen = FALSE
    /\ routings = 0 /\ rounds = 0
    /\ raised = "none" /\ raisedBy = "none"
    /\ final_result = <<>>
    /\ yielded = <<>>
    /\ recent_events = <<>> /\ event_callbacks = <<>>
    /\ stop_event = FALSE /\ research_completed_emitted = FALSE
    /\ clock = 0
    /\ cpc = [c \in LogConsumers |-> "none"]
    /\ subscribed_at = [c \in LogConsumers |-> 0]
    /\ replay = [c \in LogConsumers |-> <<>>]
    /\ event_queue = [c \in LogConsumers |-> <<>>]
    /\ delivered = [c \in LogConsumers |-> <<>>]
    /\ beats = 0
    /\ tokens = max_tokens /\ last_refill = 0 /\ now = 0
    /\ lock = 0 /\ waiters = <<>>
    /\ stats = [total_requests |-> 0, throttled_requests |-> 0]
    /\ apc = [c \in Callers |-> "idle"]
    /\ priority = [c \in Callers |-> "NORMAL"]
    /\ wake_at = [c \in Callers |-> 0]
    /\ refilled = 0
    /\ lop = "none" /\ lpc = "idle" /\ max_retries = 0 /\ script = <<>>
    /\ attempt = 0 /\ calls = 0 /\ polls = 0 /\ task_seen = FALSE
    /\ waits = <<>> /\ lresult = "none"
    /\ sse_pc = "open" /\ sse_taken = 0 /\ sse_out = <<>> /\ sse_quiet = TRUE
    /\ ppc = "idle" /\ presponse = NoResponse /\ prest = "none"
    /\ pexc = NoExc /\ pfinal = "" /\ pstatus = 0

\* Every callback given to add_event_callback is a log_callback, which only
\* puts on an unbounded queue.
InitAll ==
    /\ InitParts /\ raising = {}
    /\ rpc = "idle" /\ rquery = "none" /\ cache = {} /\ net = <<>> /\ searches = 0
    /\ run_no = 0 /\ run_from = 0
    /\ epc = [t \in Emitters |-> "idle"] /\ eidx = [t \in Emitters |-> 0]
    /\ eown = [t \in Emitters |-> NoEvent] /\ emits = [t \in Emitters |-> 0]
    /\ tx_queue = <<>> /\ tx_pc = [c \in TxConsumers |-> "none"]
    /\ tx_filter = [c \in TxConsumers |-> "none"]
    /\ tx_out = [c \in TxConsumers |-> <<>>] /\ tx_beats = 0
    /\ fin_pc = "idle" /\ fin_task = "none" /\ finish_success = FALSE
    /\ fin_events = <<>> /\ fin_calls = 0
    /\ vpc = "idle" /\ vlog = <<>> /\ update_dict = {}

\* The graph on its own.
Init == InitAll /\ budget = MaxRoutings

\* A Run watched by log-stream consumers, started as api_main.py starts it.
InitLog == InitAll /\ budget = LogRoutings

\* ------------------------------------------- execute_sync/execute_streaming
\* An event of graph.astream_events that the loops act on: a token chunk of a
\* node (output <<>>) or the end of a node with its output.
GraphEvent(kind, node, out) == [event |-> kind, name |-> node, output |-> out]

IsChainEnd(e) == e.event = "on_chain_end"

\* The partial states the graph has merged, in order: one per on_chain_end.
merged ==
    LET ends == SelectSeq(graph_events, IsChainEnd) IN
    [i \in DOMAIN ends |-> ends[i].output]

\* The call: emit research_started; execute_streaming also yields it.
Start ==
    /\ pc = "idle"
    /\ \E m \in {"sync", "streaming"} :
         LET b == EmitEvent(Bus, "research_started", "system") IN
         /\ mode' = m
         /\ Commit(b)
         /\ yielded' = IF m = "streaming" THEN Append(yielded, b.recent[Len(b.recent)])
                       ELSE yielded
    /\ pc' = "input_validator" /\ phase' = "run"
    /\ UNCHANGED <<chunks, output, state, input_question, graph_events, keepsUndeclared, budget, executed, sinceNoDocs, noDocsSeen,
                   routings, rounds, raised, raisedBy, final_result, event_callbacks, stop_event,
                   research_completed_emitted, cpc, subscribed_at, replay, delivered, beats>>
    /\ UNCHANGED elsewhere

\* A node body returns `out` after yielding k token chunks, having left q in
\* the question attribute of its input object.
ReturnsAfter(n, out, k, q) ==
    /\ output' = out /\ chunks' = k /\ phase' = "stream"
    /\ executed' = executed \cup {n}
    /\ LET empty == n = "retriever" /\ out.retrieval_status = "No documents found" IN
       /\ noDocsSeen' = (noDocsSeen \/ empty)
       /\ sinceNoDocs' = IF empty THEN {}
                         ELSE IF noDocsSeen THEN sinceNoDocs \cup {n}
                         ELSE sinceNoDocs
    /\ UNCHANGED <<mode, pc, state, graph_events, keepsUndeclared, budget, routings, rounds, raised, raisedBy,
                   final_result, yielded, busVars, logVars>>
    /\ input_question' = q
    /\ UNCHANGED elsewhere

Returns(n, out, k) == ReturnsAfter(n, out, k, input_question)

\* An executor that emits the failure event but lets the graph go on.
Abort_and_continue(b, who, exc) ==
    LET f == EmitFailure(b, exc) IN
    /\ Commit(f)
    /\ yielded' = YieldLatest(yielded, f)
    /\ raised' = exc /\ raisedBy' = who
    /\ pc' = IF who \in Nodes THEN AfterNode(who) ELSE "failed"
    /\ stop_event' = (who \notin Nodes)
    /\ executed' = executed \cup ({who} \cap Nodes)
    /\ UNCHANGED <<mode, phase, chunks, output, state, input_question, keepsUndeclared, budget, sinceNoDocs,
                   noDocsSeen, routings, rounds, final_result, event_callbacks,
                   research_completed_emitted, cpc, subscribed_at, replay, delivered,
                   beats>>
    /\ UNCHANGED elsewhere

\* An exception leaves graph.astream_events: the except-clause emits the
\* terminal event, execute_streaming yields it, the exception is re-raised and
\* the finally-clause sets the stop flag.
Abort(b, who, exc) ==
    LET f == EmitFailure(b, exc) IN
    /\ Commit(f)
    /\ yielded' = YieldLatest(yielded, f)
    /\ raised' = exc /\ raisedBy' = who
    /\ pc' = "failed"
    /\ stop_event' = TRUE
    /\ executed' = executed \cup ({who} \cap Nodes)
    /\ UNCHANGED <<mode, phase, chunks, output, state, input_question, keepsUndeclared, budget, sinceNoDocs,
                   noDocsSeen, routings, rounds, final_result, event_callbacks,
                   research_completed_emitted, cpc, subscribed_at, replay, delivered, beats>>
    /\ UNCHANGED elsewhere

Raises(n, exc) == Abort(Bus, n, exc) /\ UNCHANGED graph_events

\* ------------------------------------------------------------ node bodies
next_revisions_lost(st) == 0 - 1

\* orchestrator: "revisions": state.revisions + 1
next_revisions(st) == st.revisions + 1

InputValidator ==
    /\ pc = "input_validator" /\ phase = "run"
    /\ \/ \E q \in {state.question, "q2"} :          \* "q2": state.question = revised
            ReturnsAfter("input_validator",
                         [validated_question |-> TRUE,
                          transcript |-> append_entry(state.transcript, "InputValidator")],
                         0, q)
       \/ \E exc \in {"ValueError", "Exception"} : Raises("input_validator", exc)

Retriever ==
    /\ pc = "retriever" /\ phase = "run"
    /\ \/ Returns("retriever",
                  [documents |-> TRUE, retrieval_status |-> "Documents found",
                   transcript |-> append_entry(state.transcript, "Retriever")], 0)
       \/ Returns("retriever",
                  [documents |-> FALSE, retrieval_status |-> "No documents found",
                   transcript |-> append_entry(state.transcript, "Retriever")], 0)
       \/ Raises("retriever", "Exception")

Synthesizer ==
    /\ pc = "synthesizer" /\ phase = "run"
    /\ \/ \E draft \in BOOLEAN :
            Returns("synthesizer",
                    [draft_answer |-> draft, criticisms |-> NoCriticisms,
                     transcript |-> append_entry(state.transcript, "Synthesizer")], 0)
       \/ Raises("synthesizer", "Exception")

Challenger ==
    /\ pc = "challenger" /\ phase = "run"
    /\ \/ \E k \in 0..MaxCriticisms, src \in BOOLEAN :
            /\ k = 0 => ~src
            /\ Returns("challenger",
                       [criticisms |-> [n |-> k, sources |-> src],
                        transcript |-> append_entry(state.transcript, "Challenger")], k)
       \/ Raises("challenger", "Exception")

Checklist ==
    /\ pc = "checklist" /\ phase = "run"
    /\ IF ~state.draft_answer
       THEN Returns("checklist", [is_sufficient |-> "False"], 0)
       ELSE \/ \E ok \in {"True", "False"} :
                 Returns("checklist", [is_sufficient |-> ok], 0)
            \/ Raises("checklist", "Exception")

Reviser ==
    /\ pc = "reviser" /\ phase = "run"
    /\ IF state.criticisms.n = 0
       THEN Returns("reviser", <<>>, 0)
       ELSE \/ Returns("reviser", [validated_question |-> TRUE, documents |-> FALSE], 0)
            \/ Raises("reviser", "Exception")

Summarizer ==
    /\ pc = "summarizer" /\ phase = "run"
    /\ \/ Returns("summarizer", [context_summary |-> TRUE], 0)
       \/ Raises("summarizer", "Exception")

Orchestrator ==
    /\ pc = "orchestrator" /\ phase = "run"
    /\ IF state.retrieval_status = "No documents found"
       THEN Returns("orchestrator",
                    [final_answer |-> TRUE,
                     transcript |-> append_entry(state.transcript, "Orchestrator")], 0)
       ELSE \/ Returns("orchestrator",
                       [validated_question |-> TRUE, documents |-> FALSE,
                        revisions |-> next_revisions(state),
                        transcript |-> append_entry(state.transcript, "Orchestrator")],
                       0)                                            \* RESEARCH_AGAIN
            \/ \E k \in 0..MaxAnswerTokens, answer \in BOOLEAN :     \* FINALIZE
                 /\ k = 0 => ~answer
                 /\ Returns("orchestrator",
                            [final_answer |-> answer,
                             transcript |-> append_entry(state.transcript, "Orchestrator")],
                            k)
            \/ Returns("orchestrator",
                       [revisions |-> next_revisions(state),
                        transcript |-> append_entry(state.transcript, "Orchestrator")],
                       0)                                            \* REVISE
            \/ Raises("orchestrator", "Exception")

Publisher ==
    /\ pc = "publisher" /\ phase = "run"
    /\ IF ~state.final_answer \/ state.retrieval_status = "No documents found"
       THEN Returns("publisher", [final_answer |-> state.final_answer], 0)
       ELSE \/ Returns("publisher",
                       [final_answer |-> state.final_answer, verifiable_data |-> TRUE,
                        transcript |-> append_entry(state.transcript, "Publisher")], 0)
            \/ \E exc \in {"ValueError", "Exception"} : Raises("publisher", exc)

\* ------------------------------------------------- the astream_events loop
\* The chunk key a node's token chunks carry, as (event_type, agent).
TokenEvent(n) ==
    CASE n = "synthesizer"  -> "draft_answer_token"
      [] n = "challenger"   -> "criticism_token"
      [] n = "orchestrator" -> "final_answer_token"

\* on_chain_stream with a token chunk.  execute_streaming then evaluates
\* hash(json.dumps(latest)) and events_yielded, neither of which is defined in
\* the module: a NameError, caught by its own except-clause.
OnChainStream ==
    /\ pc \in Nodes /\ phase = "stream" /\ chunks > 0
    /\ LET b == EmitEvent(Bus, TokenEvent(pc), pc) IN
       IF mode = "streaming"
       THEN /\ Abort(b, "execute_streaming", "NameError")
            /\ graph_events' = Append(graph_events, GraphEvent("on_chain_stream", pc, <<>>))
       ELSE /\ Commit(b)
            /\ graph_events' = Append(graph_events, GraphEvent("on_chain_stream", pc, <<>>))
            /\ chunks' = chunks - 1
            /\ UNCHANGED <<mode, pc, phase, output, state, input_question, keepsUndeclared, budget, executed,
                           sinceNoDocs, noDocsSeen, routings, rounds, raised, raisedBy,
                           final_result, yielded, event_callbacks, stop_event,
                           research_completed_emitted, cpc, subscribed_at, replay, delivered, beats,
                           elsewhere>>

\* on_chain_end of a node: the completion event, final_result, and in
\* execute_streaming the yield of the newest stored event; the graph merges the
\* output and follows the node's edge.
OnChainEnd ==
    /\ pc \in Nodes /\ phase = "stream" /\ chunks = 0
    /\ LET b == EmitCompletion(Bus, pc, output) IN
       /\ Commit(b)
       /\ yielded' = YieldLatest(yielded, b)
    /\ research_completed_emitted' =
          (research_completed_emitted \/ CompletionEvent(pc, output) = "research_completed")
    /\ final_result' = output
    /\ state' = Merge(state, output)
    /\ input_question' = Merge(state, output).question
    /\ graph_events' = Append(graph_events, GraphEvent("on_chain_end", pc, output))
    /\ pc' = AfterNode(pc) /\ phase' = "run"
    /\ output' = <<>>
    /\ UNCHANGED <<mode, chunks, keepsUndeclared, budget, executed, sinceNoDocs, noDocsSeen,
                   routings, rounds, raised, raisedBy, event_callbacks, stop_event,
                   cpc, subscribed_at, replay, delivered, beats>>
    /\ UNCHANGED elsewhere

Routed(target) ==
    /\ pc' = target
    /\ routings' = routings + 1
    /\ rounds' = IF target \in {"reviser", "summarizer"} THEN rounds + 1 ELSE rounds
    /\ UNCHANGED <<mode, phase, chunks, output, state, input_question, graph_events, keepsUndeclared, budget, executed,
                   sinceNoDocs, noDocsSeen, raised, raisedBy, final_result, yielded,
                   busVars, logVars>>
    /\ UNCHANGED elsewhere

RouteAfterRetrieval ==
    /\ pc = "route_after_retrieval" /\ routings < budget
    /\ Routed(route_after_retrieval(state))

\* state.is_sufficient is read from a KognysState: an AttributeError when the
\* state carries no such attribute.
RouteAfterChecklist ==
    /\ pc = "route_after_checklist" /\ routings < budget
    /\ IF state.is_sufficient = "missing"
       THEN Raises("route_after_checklist", "AttributeError")
       ELSE Routed(route_after_checklist(state))

\* After the loop: the final check for success, then the finally-clause.
Finish ==
    /\ pc = "finish"
    /\ LET failed == ~HasFinalAnswer(final_result) /\ ~research_completed_emitted
           b == IF failed THEN EmitEvent(Bus, "research_failed", "system") ELSE Bus
       IN /\ Commit(b)
          /\ yielded' = IF failed THEN YieldLatest(yielded, b) ELSE yielded
    /\ pc' = "done"
    /\ stop_event' = TRUE
    /\ UNCHANGED <<mode, phase, chunks, output, state, input_question, graph_events, keepsUndeclared, budget, executed,
                   sinceNoDocs, noDocsSeen, routings, rounds, raised, raisedBy, final_result,
                   event_callbacks, research_completed_emitted, cpc, subscribed_at, replay, delivered,
                   beats>>
    /\ UNCHANGED elsewhere

Next ==
    \/ Start
    \/ InputValidator \/ Retriever \/ Synthesizer \/ Challenger \/ Checklist
    \/ Reviser \/ Summarizer \/ Orchestrator \/ Publisher
    \/ OnChainStream \/ OnChainEnd
    \/ RouteAfterRetrieval \/ RouteAfterChecklist
    \/ Finish

Spec == Init /\ [][Next]_vars

\* ----------------------------------------------------- stream_recent_events
Heartbeat == [event_type |-> "heartbeat", agent |-> "system", id |-> 0,
              keys |-> EventKeys]

\* First step of the generator: snapshot the history; with nothing to replay
\* it goes on, without suspending, to register its callback.
Subscribe(c) ==
    /\ cpc[c] = "none"
    /\ \A d \in LogConsumers : d < c => cpc[d] # "none"
    /\ subscribed_at' = [subscribed_at EXCEPT ![c] = clock]
    /\ LET recent == get_recent_events(recent_events, RecentLimit) IN
       /\ replay' = [replay EXCEPT ![c] = recent]
       /\ IF recent = <<>>
          THEN /\ event_callbacks' = Append(event_callbacks, c)
               /\ cpc' = [cpc EXCEPT ![c] = "live"]
          ELSE /\ cpc' = [cpc EXCEPT ![c] = "replay"]
               /\ UNCHANGED event_callbacks
    /\ UNCHANGED <<runVars, recent_events, stop_event, research_completed_emitted,
                   clock, event_queue, delivered, beats>>
    /\ UNCHANGED elsewhere

\* "for event in recent: yield event"; resumed after the last one, the
\* generator registers its callback (add_event_callback).
Replay(c) ==
    /\ cpc[c] = "replay"
    /\ IF replay[c] # <<>>
       THEN /\ delivered' = [delivered EXCEPT ![c] = Append(@, Head(replay[c]))]
            /\ replay' = [replay EXCEPT ![c] = Tail(@)]
            /\ UNCHANGED <<cpc, event_callbacks>>
       ELSE /\ event_callbacks' = Append(event_callbacks, c)
            /\ cpc' = [cpc EXCEPT ![c] = "live"]
            /\ UNCHANGED <<delivered, replay>>
    /\ UNCHANGED <<runVars, recent_events, stop_event, research_completed_emitted,
                   clock, event_queue, beats, subscribed_at>>
    /\ UNCHANGED elsewhere

\* "event = event_queue.get(timeout=30); yield event"
Dequeue(c) ==
    /\ cpc[c] = "live" /\ event_queue[c] # <<>>
    /\ delivered' = [delivered EXCEPT ![c] = Append(@, Head(event_queue[c]))]
    /\ event_queue' = [event_queue EXCEPT ![c] = Tail(@)]
    /\ UNCHANGED <<runVars, recent_events, event_callbacks, stop_event,
                   research_completed_emitted, clock, cpc, subscribed_at, replay, beats>>
    /\ UNCHANGED elsewhere

\* "except queue.Empty: yield heartbeat"
Timeout(c) ==
    /\ cpc[c] = "live" /\ event_queue[c] = <<>> /\ beats < MaxHeartbeats
    /\ delivered' = [delivered EXCEPT ![c] = Append(@, Heartbeat)]
    /\ beats' = beats + 1
    /\ UNCHANGED <<runVars, busVars, cpc, subscribed_at, replay, event_queue>>
    /\ UNCHANGED elsewhere

NextLog == \E c \in LogConsumers : Subscribe(c) \/ Replay(c) \/ Dequeue(c) \/ Timeout(c)

\* A Run followed for LogRoutings routing decisions does not reach the
\* reviser or the summarizer.
NextWatched ==
    \/ Start
    \/ InputValidator \/ Retriever \/ Synthesizer \/ Challenger \/ Checklist
    \/ Orchestrator \/ Publisher
    \/ OnChainStream \/ OnChainEnd
    \/ RouteAfterRetrieval
    \/ Finish
    \/ NextLog

SpecLog == InitLog /\ [][NextWatched]_vars

\* The same Run and consumers when some of the registered callables raise:
\* add_event_callback takes any callable.
InitRaising ==
    /\ InitParts /\ budget = LogRoutings
    /\ raising \in SUBSET LogConsumers /\ raising # {}
    /\ rpc = "idle" /\ rquery = "none" /\ cache = {} /\ net = <<>> /\ searches = 0
    /\ run_no = 0 /\ run_from = 0
    /\ epc = [t \in Emitters |-> "idle"] /\ eidx = [t \in Emitters |-> 0]
    /\ eown = [t \in Emitters |-> NoEvent] /\ emits = [t \in Emitters |-> 0]
    /\ tx_queue = <<>> /\ tx_pc = [c \in TxConsumers |-> "none"]
    /\ tx_filter = [c \in TxConsumers |-> "none"]
    /\ tx_out = [c \in TxConsumers |-> <<>>] /\ tx_beats = 0
    /\ fin_pc = "idle" /\ fin_task = "none" /\ finish_success = FALSE
    /\ fin_events = <<>> /\ fin_calls = 0
    /\ vpc = "idle" /\ vlog = <<>> /\ update_dict = {}

SpecRaising == InitRaising /\ [][NextWatched]_vars

\* ------------------------------------------- api_main: generate_sse_stream
\* The client of /papers/stream. stream_executor puts every event that
\* execute_streaming yields on the generator's queue the moment it is yielded,
\* so the queue holds the events of yielded past sse_taken.
SseDeliver ==
    /\ mode = "streaming" /\ sse_pc = "open"
    /\ sse_taken < Len(yielded)
    /\ sse_out' = Append(sse_out, yielded[sse_taken + 1])
    /\ sse_taken' = sse_taken + 1
    /\ sse_quiet' = FALSE
    /\ UNCHANGED <<runVars, busVars, logVars, limVars, ledVars, papVars, otherVars, sse_pc>>

\* The heartbeat dict of generate_sse_stream: its time is inside data.
SseHeartbeatEvent == [event_type |-> "heartbeat", agent |-> "system", id |-> 0,
                      keys |-> {"event_type", "data", "agent"}]

\* heartbeat(): after every sleep(15) a heartbeat is put on the queue,
\* whatever was put or yielded during the sleep; the generator, waiting on
\* the drained queue, yields it. The next interval starts.
SseHeartbeat ==
    /\ mode = "streaming" /\ sse_pc = "open"
    /\ pc \notin {"done", "failed"}
    /\ sse_taken = Len(yielded)
    /\ beats < MaxHeartbeats
    /\ sse_out' = Append(sse_out, SseHeartbeatEvent)
    /\ beats' = beats + 1
    /\ sse_quiet' = TRUE
    /\ UNCHANGED <<runVars, busVars, cpc, subscribed_at, replay, event_queue,
                   delivered, limVars, ledVars, papVars, otherVars, sse_pc, sse_taken>>

\* "if item is None: break" / "raise item": the Run has ended and everything
\* before the end marker was yielded.
SseClose ==
    /\ mode = "streaming" /\ sse_pc = "open"
    /\ pc \in {"done", "failed"}
    /\ sse_taken = Len(yielded)
    /\ sse_pc' = "closed"
    /\ UNCHANGED <<runVars, busVars, logVars, limVars, ledVars, papVars, otherVars,
                   sse_taken, sse_out, sse_quiet>>

\* The client goes away: the generator is closed at its yield and its finally
\* cancels executor_task. CancelledError is no Exception, so a Run that has
\* not ended leaves execute_streaming through "finally: _stop_event.set()"
\* alone, with no event.
SseDisconnect ==
    /\ mode = "streaming" /\ sse_pc = "open"
    /\ sse_pc' = "gone"
    /\ IF pc \in {"done", "failed"}
       THEN UNCHANGED <<pc, stop_event, raised, raisedBy>>
       ELSE /\ pc' = "cancelled"
            /\ stop_event' = TRUE
            /\ raised' = "CancelledError"
            /\ raisedBy' = "generate_sse_stream"
    /\ UNCHANGED <<mode, phase, chunks, output, state, input_question, graph_events, keepsUndeclared, executed,
                   sinceNoDocs, noDocsSeen, routings, rounds, budget,
                   final_result, yielded>>
    /\ UNCHANGED <<recent_events, event_callbacks, research_completed_emitted, clock>>
    /\ UNCHANGED <<logVars, limVars, ledVars, papVars, otherVars, sse_taken, sse_out, sse_quiet>>

\* The client of /logs/stream goes away: its generator is closed. Nothing
\* removes log_callback from event_callbacks.
LogDisconnect(c) ==
    /\ cpc[c] \in {"replay", "live"}
    /\ cpc' = [cpc EXCEPT ![c] = "closed"]
    /\ UNCHANGED <<runVars, busVars, subscribed_at, replay, event_queue,
                   delivered, beats>>
    /\ UNCHANGED elsewhere

\* A streaming Run followed up to its first routing decision, with its SSE
\* client and the log-stream consumers.
NextSse ==
    \/ Start
    \/ InputValidator \/ Retriever
    \/ OnChainEnd
    \/ NextLog
    \/ \E c \in LogConsumers : LogDisconnect(c)
    \/ SseDeliver \/ SseHeartbeat \/ SseClose \/ SseDisconnect

InitSse == InitAll /\ budget = 0

SpecSse == InitSse /\ [][NextSse]_vars

\* ------------------------------------------------- api_main: create_paper
\* What the graph behind the validator can do to ainvoke: return a state with
\* or without a final answer, or raise (a ValueError of another node, e.g.
\* unibase_da_client._get_headers, or any other exception).
RestOutcomes == {"answer", "no_answer", "ValueError", "RuntimeError"}

PapersRequest ==
    /\ ppc = "idle"
    /\ \E r \in ValidatorResponses, o \in RestOutcomes :
          /\ presponse' = r
          /\ prest' = o
    /\ ppc' = "validator"
    /\ UNCHANGED <<pexc, pfinal, pstatus>>
    /\ UNCHANGED <<runVars, busVars, logVars, limVars, ledVars, sseVars, otherVars>>

\* kognys_graph.ainvoke runs the entry node.
PapersValidator ==
    /\ ppc = "validator"
    /\ pexc' = validator_raises(presponse)
    /\ ppc' = IF validator_raises(presponse) = NoExc THEN "graph" ELSE "except"
    /\ UNCHANGED <<presponse, prest, pfinal, pstatus>>
    /\ UNCHANGED <<runVars, busVars, logVars, limVars, ledVars, sseVars, otherVars>>

\* ... and the nodes after it.
PapersGraph ==
    /\ ppc = "graph"
    /\ IF prest \in {"answer", "no_answer"}
       THEN /\ pfinal' = IF prest = "answer" THEN "answer" ELSE ""
            /\ ppc' = "respond"
            /\ UNCHANGED pexc
       ELSE /\ pexc' = [type |-> prest,
                        msg  |-> IF prest = "ValueError"
                                 THEN "API key for DA service not set." ELSE "boom",
                        by   |-> "graph"]
            /\ ppc' = "except"
            /\ UNCHANGED pfinal
    /\ UNCHANGED <<presponse, prest, pstatus>>
    /\ UNCHANGED <<runVars, busVars, logVars, limVars, ledVars, sseVars, otherVars>>

PapersExcept ==
    /\ ppc = "except"
    /\ pstatus' = except_status(pexc)
    /\ ppc' = "done"
    /\ UNCHANGED <<presponse, prest, pexc, pfinal>>
    /\ UNCHANGED <<runVars, busVars, logVars, limVars, ledVars, sseVars, otherVars>>

PapersRespond ==
    /\ ppc = "respond"
    /\ pstatus' = return_status(pfinal)
    /\ ppc' = "done"
    /\ UNCHANGED <<presponse, prest, pexc, pfinal>>
    /\ UNCHANGED <<runVars, busVars, logVars, limVars, ledVars, sseVars, otherVars>>

NextPapers ==
    PapersRequest \/ PapersValidator \/ PapersGraph \/ PapersExcept \/ PapersRespond

InitPapers == InitAll /\ budget = 0 /\ ~keepsUndeclared

SpecPapers == InitPapers /\ [][NextPapers]_vars

\* ------------------------------------------------------- RateLimiter.acquire
\* An acquire that consumes without testing the bucket.
WhileTokens_without_test(c, tk, throttled) ==
    /\ refilled' = refilled + (tk - tokens)
    /\ tokens' = tk - Unit
    /\ apc' = [apc EXCEPT ![c] = "idle"]
    /\ lock' = 0
    /\ stats' = [stats EXCEPT !.throttled_requests = throttled,
                               !.total_requests = @ + 1]
    /\ UNCHANGED wake_at

\* The test of "while self.tokens < 1" on a bucket holding tk units, by the
\* caller c that holds the lock: sleep, or consume a token and leave.
WhileTokens(c, tk, throttled) ==
    /\ refilled' = refilled + (tk - tokens)
    /\ IF tk < Unit
       THEN /\ tokens' = tk
            /\ apc' = [apc EXCEPT ![c] = "sleep"]
            /\ wake_at' = [wake_at EXCEPT ![c] = now + wait_time(tk, priority[c])]
            /\ lock' = c
            /\ stats' = [stats EXCEPT !.throttled_requests = throttled]
       ELSE /\ tokens' = tk - Unit
            /\ apc' = [apc EXCEPT ![c] = "idle"]
            /\ lock' = 0
            /\ stats' = [stats EXCEPT !.throttled_requests = throttled,
                                       !.total_requests = @ + 1]
            /\ UNCHANGED wake_at

\* acquire(priority) is called and reaches "async with self.lock".
Acquire(c) ==
    /\ apc[c] = "idle"
    /\ stats.total_requests + Cardinality({d \in Callers : apc[d] # "idle"}) < MaxAcquires
    /\ \E p \in Priority : priority' = [priority EXCEPT ![c] = p]
    /\ apc' = [apc EXCEPT ![c] = "waiting"]
    /\ waiters' = Append(waiters, c)
    /\ UNCHANGED <<tokens, last_refill, lock, stats, now, wake_at, refilled>>
    /\ UNCHANGED <<runVars, busVars, logVars, ledVars, sseVars, papVars, otherVars>>

\* An acquire that does not wait for the lock.
Enter_without_lock(c) ==
    /\ waiters # <<>> /\ Head(waiters) = c
    /\ waiters' = Tail(waiters)
    /\ last_refill' = now
    /\ WhileTokens(c, refill_tokens(tokens, last_refill, now), stats.throttled_requests)
    /\ UNCHANGED <<now, priority>>
    /\ UNCHANGED <<runVars, busVars, logVars, ledVars, sseVars, papVars, otherVars>>

\* A lock that lets a waiting HIGH caller pass the callers before it.
Enter_high_first(c) ==
    /\ lock = 0 /\ c \in Range(waiters)
    /\ priority[c] = "HIGH" \/ Head(waiters) = c
    /\ waiters' = SelectSeq(waiters, LAMBDA d : d # c)
    /\ last_refill' = now
    /\ WhileTokens(c, refill_tokens(tokens, last_refill, now), stats.throttled_requests)
    /\ UNCHANGED <<now, priority>>
    /\ UNCHANGED <<runVars, busVars, logVars, ledVars, sseVars, papVars, otherVars>>

\* The lock is granted to the longest-waiting caller, which refills the bucket
\* and makes the first test of the loop.
Enter(c) ==
    /\ lock = 0 /\ waiters # <<>> /\ Head(waiters) = c
    /\ waiters' = Tail(waiters)
    /\ last_refill' = now
    /\ WhileTokens(c, refill_tokens(tokens, last_refill, now), stats.throttled_requests)
    /\ UNCHANGED <<now, priority>>
    /\ UNCHANGED <<runVars, busVars, logVars, ledVars, sseVars, papVars, otherVars>>

\* asyncio.sleep(wait_time) returns, at its deadline or later: refill, count
\* the throttling, test again.
Wake(c) ==
    /\ apc[c] = "sleep" /\ now >= wake_at[c]
    /\ last_refill' = now
    /\ WhileTokens(c, refill_tokens(tokens, last_refill, now),
                   stats.throttled_requests + 1)
    /\ UNCHANGED <<waiters, now, priority>>
    /\ UNCHANGED <<runVars, busVars, logVars, ledVars, sseVars, papVars, otherVars>>

\* time.monotonic() advances.
Tick ==
    /\ now < MaxTime
    /\ now' = now + 1
    /\ UNCHANGED <<tokens, last_refill, lock, waiters, stats, apc, priority, wake_at,
                   refilled>>
    /\ UNCHANGED <<runVars, busVars, logVars, ledVars, sseVars, papVars, otherVars>>

NextLimiter ==
    \/ \E c \in Callers : Acquire(c) \/ Enter(c) \/ Wake(c)
    \/ Tick

InitLimiter == InitAll /\ budget = 0 /\ ~keepsUndeclared

SpecLimiter == InitLimiter /\ [][NextLimiter]_vars

\* ------------------------------------------------- membase_client: ledger
SyncOps == {"create_task", "join_task", "finish_task", "buy_agent_auth"}
AsyncOps == {"async_create_task", "async_join_task", "async_finish_task"}
JoinOps == {"join_task", "async_join_task"}
LedgerOps == SyncOps \cup AsyncOps \cup {"register_agent_if_not_exists"}

\* What the ledger may answer to the operation's call: success, a 500 with
\* "nonce too low", a 404/500 with "does not exist", another HTTP error, and,
\* to buy-auth, a detail with "409" and "already has authorization".
AnswersOf(op) ==
    {"ok", "nonce", "missing", "other"}
        \cup (IF op = "buy_agent_auth" THEN {"already"} ELSE {})

\* The answers after which the function returns success.
Succeeds_only_ok(op, ans) == ans = "ok"
Succeeds(op, ans) == ans = "ok" \/ (op = "buy_agent_auth" /\ ans = "already")

\* The failures after which the function tries again while attempts remain:
\* is_nonce_error, is_race_condition_error, or any aiohttp.ClientError.
Retryable_never(op, ans) == FALSE
Retryable(op, ans) ==
    CASE op \in {"create_task", "finish_task", "buy_agent_auth"} -> ans = "nonce"
      [] op = "join_task" -> ans \in {"nonce", "missing"}
      [] op \in AsyncOps -> ans \in {"nonce", "missing", "other"}
      [] OTHER -> FALSE

\* wait_time before the next attempt, in seconds.
backoff(op, ans, att) ==
    CASE op = "join_task" -> IF ans = "nonce" THEN (att + 1) * 2 ELSE 2 ^ att
      [] op = "async_join_task" -> 2 ^ att
      [] op = "buy_agent_auth" -> (att + 1) * 3
      [] OTHER -> (att + 1) * 2

\* "attempt < max_retries - 1"
AttemptsRemain_always(att, n) == TRUE
AttemptsRemain_one_less(att, n) == att < n - 2
AttemptsRemain(att, n) == att < n - 1

\* The polling loop of join_task after its polled-th check_task_exists.
AfterPoll_joins_anyway(exists, polled) ==
    IF exists \/ polled >= PollLimit THEN "call" ELSE "poll"
AfterPoll(exists, polled) ==
    IF exists THEN "call"
    ELSE IF polled >= PollLimit THEN "done"
    ELSE "poll"

\* The function is called.
LedgerBegin ==
    /\ lpc = "idle"
    /\ \E op \in LedgerOps, n \in 1..MaxAttempts :
         /\ op = "register_agent_if_not_exists" => n = 1
         /\ lop' = op /\ max_retries' = n
         /\ script' \in [1..MaxAttempts -> AnswersOf(op)]
         /\ lpc' = IF op \in JoinOps THEN "poll"
                   ELSE IF op = "register_agent_if_not_exists" THEN "check"
                   ELSE "call"
    /\ UNCHANGED <<attempt, calls, polls, task_seen, waits, lresult>>
    /\ UNCHANGED <<runVars, busVars, logVars, limVars, sseVars, papVars, otherVars>>

\* register_agent_if_not_exists: the GET that finds the agent registered, or
\* does not.
LedgerCheck ==
    /\ lpc = "check"
    /\ \E registered \in BOOLEAN :
         IF registered
         THEN lpc' = "done" /\ lresult' = "success"
         ELSE lpc' = "call" /\ UNCHANGED lresult
    /\ UNCHANGED <<lop, max_retries, script, attempt, calls, polls, task_seen, waits>>
    /\ UNCHANGED <<runVars, busVars, logVars, limVars, sseVars, papVars, otherVars>>

\* join_task: one check_task_exists of "for i in range(10)".
LedgerPoll ==
    /\ lpc = "poll"
    /\ \E exists \in BOOLEAN :
         /\ task_seen' = exists
         /\ lpc' = AfterPoll(exists, polls + 1)
    /\ polls' = polls + 1
    /\ lresult' = IF lpc' = "done" THEN "failure" ELSE lresult
    /\ UNCHANGED <<lop, max_retries, script, attempt, calls, waits>>
    /\ UNCHANGED <<runVars, busVars, logVars, limVars, sseVars, papVars, otherVars>>

\* One pass of "for attempt in range(max_retries)": the call and its answer.
LedgerCall ==
    /\ lpc = "call"
    /\ calls' = calls + 1
    /\ LET ans == script[calls + 1] IN
       IF Succeeds(lop, ans)
       THEN lpc' = "done" /\ lresult' = "success" /\ UNCHANGED waits
       ELSE IF Retryable(lop, ans) /\ AttemptsRemain(attempt, max_retries)
       THEN /\ lpc' = "wait"
            /\ waits' = Append(waits, backoff(lop, ans, attempt))
            /\ UNCHANGED lresult
       ELSE lpc' = "done" /\ lresult' = "failure" /\ UNCHANGED waits
    /\ UNCHANGED <<lop, max_retries, script, attempt, polls, task_seen>>
    /\ UNCHANGED <<runVars, busVars, logVars, limVars, sseVars, papVars, otherVars>>

\* sleep(wait_time) is over: "continue".
LedgerResume ==
    /\ lpc = "wait"
    /\ attempt' = attempt + 1
    /\ lpc' = "call"
    /\ UNCHANGED <<lop, max_retries, script, calls, polls, task_seen, waits, lresult>>
    /\ UNCHANGED <<runVars, busVars, logVars, limVars, sseVars, papVars, otherVars>>

NextLedger == LedgerBegin \/ LedgerCheck \/ LedgerPoll \/ LedgerCall \/ LedgerResume

InitLedger == InitAll /\ budget = 0 /\ ~keepsUndeclared

SpecLedger == InitLedger /\ [][NextLedger]_vars

\* --------------------------------------------------------- retriever.node
\* The queries the retriever is called with (validated_question or question)
\* and the three sources it searches, in the order of its calls.
Queries == {"q", "q2"}

Sources == {"openalex", "arxiv", "semantic_scholar"}

NetCall(op, source) == [op |-> op, source |-> source]

\* Everything but the retriever's own variables.
besidesRetriever == <<runVars, busVars, logVars, limVars, ledVars, sseVars, papVars, regVars,
                      seqVars, emitVars, txVars, finVars, valVars>>

\* "query = state.validated_question or state.question"
RetrieverCall ==
    /\ rpc = "idle" /\ searches < MaxSearches
    /\ \E q \in Queries : rquery' = q
    /\ rpc' = "openalex"
    /\ UNCHANGED <<cache, net, searches>>
    /\ UNCHANGED besidesRetriever

\* search_works: asyncio.run(search_works_async(query, k)). A cache hit
\* returns at once; otherwise rate_limit_manager.acquire("openalex") and
\* then the request, whose results, if any, are cached.
search_works ==
    /\ rpc = "openalex"
    /\ IF <<"openalex", rquery>> \in cache
       THEN UNCHANGED <<cache, net>>
       ELSE /\ net' = net \o <<NetCall("acquire", "openalex"),
                               NetCall("request", "openalex")>>
            /\ \E found \in BOOLEAN :
                 cache' = IF found THEN cache \cup {<<"openalex", rquery>>} ELSE cache
    /\ rpc' = "arxiv"
    /\ UNCHANGED <<rquery, searches>>
    /\ UNCHANGED besidesRetriever

\* search_arxiv, the synchronous wrapper: sync_cache_manager.get, then
\* _search_arxiv_api(query, k) directly, then sync_cache_manager.set.
search_arxiv ==
    /\ rpc = "arxiv"
    /\ IF <<"arxiv", rquery>> \in cache
       THEN UNCHANGED <<cache, net>>
       ELSE /\ net' = Append(net, NetCall("request", "arxiv"))
            /\ \E found \in BOOLEAN :
                 cache' = IF found THEN cache \cup {<<"arxiv", rquery>>} ELSE cache
    /\ rpc' = "semantic_scholar"
    /\ UNCHANGED <<rquery, searches>>
    /\ UNCHANGED besidesRetriever

\* search_semantic_scholar: requests.get, no cache; the node then returns.
search_semantic_scholar ==
    /\ rpc = "semantic_scholar"
    /\ net' = Append(net, NetCall("request", "semantic_scholar"))
    /\ rpc' = "idle"
    /\ searches' = searches + 1
    /\ UNCHANGED <<rquery, cache>>
    /\ UNCHANGED besidesRetriever

NextRetriever ==
    RetrieverCall \/ search_works \/ search_arxiv \/ search_semantic_scholar

InitRetriever == InitAll /\ budget = 0 /\ ~keepsUndeclared

SpecRetriever == InitRetriever /\ [][NextRetriever]_vars

\* ------------------------------------------ unified_executor: later Runs
\* The next request: api_main builds a new KognysState and config and calls
\* execute_sync / execute_streaming again on the module-level
\* unified_executor, whose attributes are what the earlier Runs left.
NewRun ==
    /\ pc \in {"done", "failed"} /\ run_no + 1 < MaxRuns
    /\ run_no' = run_no + 1 /\ run_from' = clock
    /\ mode' = "none" /\ pc' = "idle" /\ phase' = "run" /\ chunks' = 0
    /\ output' = <<>>
    /\ state' = InitialState
    /\ input_question' = InitialState.question
    /\ graph_events' = <<>>
    /\ executed' = {} /\ sinceNoDocs' = {} /\ noDocsSeen' = FALSE
    /\ routings' = 0 /\ rounds' = 0
    /\ raised' = "none" /\ raisedBy' = "none"
    /\ final_result' = <<>>
    /\ yielded' = <<>>
    /\ UNCHANGED <<keepsUndeclared, budget, busVars, logVars>>
    /\ UNCHANGED <<limVars, ledVars, sseVars, papVars, regVars, retVars, emitVars, txVars,
                   finVars, valVars>>

\* Runs one after another, watched by the first log-stream consumer.
NextRuns ==
    \/ Start
    \/ InputValidator \/ Retriever \/ Synthesizer \/ Challenger \/ Checklist
    \/ Orchestrator \/ Publisher
    \/ OnChainStream \/ OnChainEnd
    \/ RouteAfterRetrieval
    \/ Finish
    \/ NewRun
    \/ Subscribe(1) \/ Replay(1) \/ Dequeue(1)

SpecRuns == InitLog /\ [][NextRuns]_vars

\* Runs one after another with nobody watching, each followed further.
InitUnwatched == InitAll /\ budget = RunsRoutings

NextUnwatched == Next \/ NewRun

SpecUnwatched == InitUnwatched /\ [][NextUnwatched]_vars

\* ------------------------------------- _emit_event: Runs in several threads
\* execute_async runs execute_sync in a thread of the default pool, and
\* execute_sync runs its loop in a thread of its own: the calls of
\* _emit_event of two Runs in progress interleave at the lock boundaries.
besidesEmit == <<runVars, logVars, limVars, ledVars, sseVars, papVars, regVars, retVars,
                 seqVars, txVars, finVars, valVars>>

\* The first events of a Run, in the order in which it emits them.
RunEvents == <<[event_type |-> "research_started", agent |-> "system"],
               [event_type |-> "question_validated", agent |-> "input_validator"]>>

\* "with self._events_lock": append the event, evict beyond _max_events.
EmitStore(t) ==
    /\ epc[t] = "idle" /\ emits[t] < MaxEmits
    /\ LET next  == RunEvents[(emits[t] % Len(RunEvents)) + 1]
           event == [event_type |-> next.event_type, agent |-> next.agent,
                     id |-> clock + 1, keys |-> EventKeys]
           appended == Append(recent_events, event)
       IN /\ recent_events' = IF Len(appended) > max_events THEN Tail(appended)
                              ELSE appended
          /\ eown' = [eown EXCEPT ![t] = event]
    /\ clock' = clock + 1
    /\ emits' = [emits EXCEPT ![t] = @ + 1]
    /\ epc' = [epc EXCEPT ![t] = "stored"]
    /\ UNCHANGED <<eidx, event_callbacks, stop_event, research_completed_emitted>>
    /\ UNCHANGED besidesEmit

\* "if not self._stop_event.is_set(): for callback in self.event_callbacks"
EmitLoop(t) ==
    /\ epc[t] = "stored"
    /\ IF stop_event
       THEN epc' = [epc EXCEPT ![t] = "idle"] /\ UNCHANGED eidx
       ELSE epc' = [epc EXCEPT ![t] = "callbacks"] /\ eidx' = [eidx EXCEPT ![t] = 1]
    /\ UNCHANGED <<eown, emits, busVars>>
    /\ UNCHANGED besidesEmit

\* One turn of the loop: callback(event_type, data), which for a log-stream
\* consumer is log_callback: it takes the lock and enqueues whatever is the
\* newest stored event then. The loop ends when the list is exhausted.
EmitCallback(t) ==
    /\ epc[t] = "callbacks"
    /\ IF eidx[t] <= Len(event_callbacks)
       THEN LET c == event_callbacks[eidx[t]] IN
            /\ event_queue' = IF c \in raising THEN event_queue
                              ELSE [event_queue EXCEPT
                                      ![c] = log_callback(@, recent_events)]
            /\ eidx' = [eidx EXCEPT ![t] = @ + 1]
            /\ UNCHANGED epc
       ELSE /\ epc' = [epc EXCEPT ![t] = "idle"]
            /\ UNCHANGED <<eidx, event_queue>>
    /\ UNCHANGED <<eown, emits, busVars>>
    /\ UNCHANGED <<runVars, cpc, subscribed_at, replay, delivered, beats>>
    /\ UNCHANGED <<limVars, ledVars, sseVars, papVars, regVars, retVars, seqVars, txVars,
                   finVars, valVars>>

\* Two threads emitting, watched by the first log-stream consumer.
NextEmit ==
    \/ \E t \in Emitters : EmitStore(t) \/ EmitLoop(t) \/ EmitCallback(t)
    \/ Subscribe(1) \/ Replay(1) \/ Dequeue(1)

InitEmit == InitAll /\ budget = 0 /\ ~keepsUndeclared

SpecEmit == InitEmit /\ [][NextEmit]_vars

\* --------------------- membase_client.async_finish_blockchain_operations
besidesTx == <<runVars, busVars, logVars, limVars, ledVars, sseVars, papVars, regVars,
               retVars, seqVars, emitVars, valVars>>

\* The event dict of emit_transaction_confirmed / emit_transaction_failed.
TxEvent(event_type, task) == [event_type |-> event_type, task_id |-> task]

\* What the GET of the finished task can give: a transaction hash, or no
\* API_BASE_URL, a status other than 200, no hash in the body ('N/A'), or an
\* exception (caught by "except Exception as get_hash_e").
HashOutcomes == {"hash", "no_base_url", "not_200", "no_hash", "exception"}

\* The publisher starts the call: "finish_success = await async_finish_task".
FinishBegin ==
    /\ fin_pc = "idle" /\ fin_calls < MaxFinishes
    /\ \E t \in Tasks : fin_task' = t
    /\ fin_pc' = "finish_task"
    /\ fin_calls' = fin_calls + 1
    /\ fin_events' = <<>>
    /\ UNCHANGED <<finish_success, txVars>>
    /\ UNCHANGED besidesTx

\* async_finish_task returns True or False, or raises what is not an
\* aiohttp.ClientError (the ValueError of _get_headers, a timeout).
FinishTask ==
    /\ fin_pc = "finish_task"
    /\ \/ \E ok \in BOOLEAN : finish_success' = ok /\ fin_pc' = "after"
       \/ fin_pc' = "raised" /\ UNCHANGED finish_success
    /\ UNCHANGED <<fin_task, fin_events, fin_calls, txVars>>
    /\ UNCHANGED besidesTx

\* The rest of the function: after a success, look the hash up and emit
\* transaction_confirmed if there is one; after a failure emit
\* transaction_failed; return finish_success.
FinishEmit ==
    /\ fin_pc = "after"
    /\ \E h \in HashOutcomes :
         LET event == IF finish_success THEN TxEvent("transaction_confirmed", fin_task)
                      ELSE TxEvent("transaction_failed", fin_task)
             emits_it == ~finish_success \/ h = "hash"
         IN /\ tx_queue' = IF emits_it THEN Append(tx_queue, event) ELSE tx_queue
            /\ fin_events' = IF emits_it THEN Append(fin_events, event) ELSE fin_events
    /\ fin_pc' = "returned"
    /\ UNCHANGED <<fin_task, finish_success, fin_calls, tx_pc, tx_filter, tx_out, tx_beats>>
    /\ UNCHANGED besidesTx

\* The task created by the publisher is done.
FinishDone ==
    /\ fin_pc \in {"returned", "raised"}
    /\ fin_pc' = "idle"
    /\ UNCHANGED <<fin_task, finish_success, fin_events, fin_calls, txVars>>
    /\ UNCHANGED besidesTx

\* ----------------------------------- api_main: generate_transaction_stream
\* GET /transactions/stream?task_id=...: the connection confirmation.
TxConnect(c) ==
    /\ tx_pc[c] = "none"
    /\ \E f \in Tasks \cup {"none"} : tx_filter' = [tx_filter EXCEPT ![c] = f]
    /\ tx_pc' = [tx_pc EXCEPT ![c] = "connected"]
    /\ tx_out' = [tx_out EXCEPT ![c] = <<TxEvent("transaction_stream_connected", "none")>>]
    /\ UNCHANGED <<tx_queue, tx_beats, finVars>>
    /\ UNCHANGED besidesTx

\* "if task_id: if event_task_id != task_id: continue"
Wants(c, event) == tx_filter[c] = "none" \/ tx_filter[c] = event.task_id

\* get_transaction_event returned an event: queue.get() took it off the one
\* queue; the generator yields it or skips it.
TxGet(c) ==
    /\ tx_pc[c] = "connected" /\ tx_queue # <<>>
    /\ tx_queue' = Tail(tx_queue)
    /\ tx_out' = IF Wants(c, Head(tx_queue))
                 THEN [tx_out EXCEPT ![c] = Append(@, Head(tx_queue))]
                 ELSE tx_out
    /\ UNCHANGED <<tx_pc, tx_filter, tx_beats, finVars>>
    /\ UNCHANGED besidesTx

\* get_transaction_event timed out: transaction_heartbeat.
TxTimeout(c) ==
    /\ tx_pc[c] = "connected" /\ tx_queue = <<>> /\ tx_beats < MaxTxBeats
    /\ tx_out' = [tx_out EXCEPT ![c] = Append(@, TxEvent("transaction_heartbeat", "none"))]
    /\ tx_beats' = tx_beats + 1
    /\ UNCHANGED <<tx_queue, tx_pc, tx_filter, finVars>>
    /\ UNCHANGED besidesTx

NextTx ==
    \/ FinishBegin \/ FinishTask \/ FinishEmit \/ FinishDone
    \/ \E c \in TxConsumers : TxConnect(c) \/ TxGet(c) \/ TxTimeout(c)

InitTx == InitAll /\ budget = 0 /\ ~keepsUndeclared

SpecTx == InitTx /\ [][NextTx]_vars

\* ------------------------------- input_validator.node: create and join
besidesValidator == <<runVars, busVars, logVars, limVars, sseVars, papVars, regVars,
                      retVars, seqVars, emitVars, txVars, finVars>>

\* A ledger function is called with its default max_retries.
CallLedger(op) ==
    /\ lop' = op /\ max_retries' = DefaultRetries
    /\ script' \in [1..MaxAttempts -> AnswersOf(op)]
    /\ lpc' = IF op \in JoinOps THEN "poll" ELSE "call"
    /\ attempt' = 0 /\ calls' = 0 /\ polls' = 0 /\ task_seen' = FALSE
    /\ waits' = <<>> /\ lresult' = "none"

\* A ledger function that returns False before its first request:
\* MEMBASE_API_URL or, for join_task, MEMBASE_ID is not set.
ReturnsAtOnce(op) ==
    /\ lop' = op /\ lpc' = "done" /\ lresult' = "failure"
    /\ UNCHANGED <<max_retries, script, attempt, calls, polls, task_seen, waits>>

Called(op, result) == [op |-> op, result |-> result]

\* "update_dict = {...}; update_dict['transcript'] = append_entry(...)"
ValidatorUpdate == {"validated_question", "paper_id", "task_id", "transcript"}

\* A validator that joins whatever create_task returned.
JoinsAfter_anything(result) == TRUE

\* "if create_task(task_id=unique_id_for_run):"
JoinsAfter(result) == result = "success"

\* The LLM has approved the question or revised it: create_task is called.
ValidatorCreate ==
    /\ pc = "input_validator" /\ phase = "run" /\ vpc = "idle"
    /\ \/ /\ CallLedger("create_task")
          /\ vpc' = "create"
          /\ UNCHANGED <<vlog, update_dict>>
       \/ /\ ReturnsAtOnce("create_task")
          /\ vlog' = Append(vlog, Called("create_task", "failure"))
          /\ IF JoinsAfter("failure")
             THEN vpc' = "create" /\ UNCHANGED update_dict
             ELSE vpc' = "return" /\ update_dict' = ValidatorUpdate
    /\ UNCHANGED besidesValidator

\* create_task has returned: join_task is called, or the dict is built.
ValidatorJoin ==
    /\ vpc = "create" /\ lpc = "done"
    /\ LET log == IF vlog = <<>> THEN <<Called("create_task", lresult)>> ELSE vlog IN
       IF JoinsAfter(lresult)
       THEN /\ vlog' = log
            /\ \/ CallLedger("join_task") /\ vpc' = "join" /\ UNCHANGED update_dict
               \/ /\ ReturnsAtOnce("join_task")
                  /\ vpc' = "join" /\ UNCHANGED update_dict
       ELSE /\ vlog' = log
            /\ vpc' = "return" /\ update_dict' = ValidatorUpdate
            /\ UNCHANGED ledVars
    /\ UNCHANGED besidesValidator

\* join_task has returned; its result is not looked at.
ValidatorJoined ==
    /\ vpc = "join" /\ lpc = "done" /\ lop = "join_task"
    /\ vlog' = Append(vlog, Called("join_task", lresult))
    /\ vpc' = "return" /\ update_dict' = ValidatorUpdate
    /\ UNCHANGED ledVars
    /\ UNCHANGED besidesValidator

\* "raise ValueError(rejection_reason)", or the LLM call fails: before any
\* ledger function is called.
ValidatorRejects ==
    /\ vpc = "idle"
    /\ InputValidator /\ raised' # "none"

\* "return update_dict"
ValidatorReturns ==
    /\ vpc = "return"
    /\ InputValidator /\ raised' = "none"

NextValidator ==
    \/ Start
    \/ ValidatorCreate \/ ValidatorJoin \/ ValidatorJoined
    \/ ValidatorRejects \/ ValidatorReturns
    \/ LedgerPoll \/ LedgerCall \/ LedgerResume
    \/ OnChainEnd

InitValidator == InitAll /\ budget = 0

SpecValidator == InitValidator /\ [][NextValidator]_vars

\* =================================================================== claims
Last(s) == s[Len(s)]

ErrorTypes == {"validation_error", "error"}
TerminalTypes == {"research_completed", "research_failed", "validation_error", "error"}

\* Positions of s holding an event whose type is in T.
Holding(s, T) == {i \in DOMAIN s : s[i].event_type \in T}

\* ------------------------------------------------------------------- C1
\* C1: every Run is on its way out (orchestrator, publisher, END or a failure)
\* once it has taken maxRevisions + 1 routing decisions, whatever the nodes
\* return.
C1_TerminatesWithinCap ==
    routings >= MaxRevisions + 1 =>
        pc \in {"orchestrator", "publisher", "finish", "done", "failed"}

\* ------------------------------------------------------------------- C2
\* C2: once the Run has gone through maxRevisions revision rounds (or its
\* revision counter has reached maxRevisions), the next routing decision goes
\* to the orchestrator, whatever the checklist reported.
C2_ForcedFinalizeAtCap ==
    [][(/\ rounds >= MaxRevisions \/ state.revisions >= MaxRevisions
        /\ routings' = routings + 1)
       => pc' = "orchestrator"]_vars

\* ------------------------------------------------------------------- C3
\* C3: when input_validator raises the ValueError of a rejected question, no
\* other node has run or will run, and the Run ends in an error: the exception
\* leaves execute_sync / execute_streaming, no final answer is produced, the
\* last event is validation_error, and execute_streaming has yielded it.
C3_ValidatorRejectionAborts ==
    (raisedBy = "input_validator" /\ raised = "ValueError") =>
        /\ executed = {"input_validator"}
        /\ pc = "failed"
        /\ ~HasFinalAnswer(final_result)
        /\ Last(recent_events).event_type = "validation_error"
        /\ mode = "streaming" => Last(yielded).event_type = "validation_error"

C3_Witness ==
    /\ raisedBy = "input_validator" /\ raised = "ValueError"
    /\ mode = "streaming" /\ pc = "failed"
    /\ Len(yielded) = 2

\* ------------------------------------------------------------------- C4
\* C4: when a Run fails, its events hold exactly one error event, the last
\* one, of type validation_error if the validator rejected the question and
\* error otherwise; the consumer of execute_streaming has received it once, as
\* the last event, and has received no event twice.
C4_OneTerminalErrorEvent ==
    pc = "failed" =>
        LET code == IF raisedBy = "input_validator" /\ raised = "ValueError"
                    THEN "validation_error" ELSE "error"
        IN  /\ Last(recent_events).event_type = code
            /\ Holding(recent_events, ErrorTypes) = {Len(recent_events)}
            /\ mode = "streaming" =>
                 /\ Last(yielded).event_type = code
                 /\ Holding(yielded, ErrorTypes) = {Len(yielded)}
                 /\ \A i, j \in DOMAIN yielded : yielded[i].id = yielded[j].id => i = j

\* ------------------------------------------------------------------- C5
\* C5: after the retriever has found no documents, only the orchestrator and
\* the publisher run, the Run does not fail, and it ends with a non-empty
\* final_answer, a research_completed event and no research_failed or error
\* event.
C5_NoDocumentsPath ==
    noDocsSeen =>
        /\ sinceNoDocs \subseteq {"orchestrator", "publisher"}
        /\ pc \in {"retriever", "route_after_retrieval", "orchestrator", "publisher",
                   "finish", "done"}
        /\ raised = "none"
        /\ Holding(recent_events, {"research_failed"} \cup ErrorTypes) = {}
        /\ pc = "done" =>
             /\ state.final_answer
             /\ research_completed_emitted
             /\ Last(recent_events).event_type = "research_completed"

C5_Witness ==
    /\ noDocsSeen /\ pc = "done"
    /\ sinceNoDocs = {"orchestrator", "publisher"}

\* ------------------------------------------------------------------- C6
NoRepeat(s) ==
    \A i \in 1..(Len(s) - 1) :
        <<s[i].event_type, s[i].agent>> # <<s[i + 1].event_type, s[i + 1].agent>>

\* C6: no two consecutive stored events, and no two consecutive events
\* yielded by execute_streaming, have the same (event_type, agent).
C6_NoConsecutiveDuplicates == NoRepeat(recent_events) /\ NoRepeat(yielded)

\* ------------------------------------------------------------------- C7
\* The events of s emitted after the m-th emission (heartbeats have id 0).
Since(s, m) == SelectSeq(s, LAMBDA e : e.id > m)

CaughtUp(c) == cpc[c] = "live" /\ event_queue[c] = <<>>

\* C7: two log-stream consumers that have both drained their queues have
\* received the same sequence of events emitted since the later of their two
\* subscriptions.
C7_SameSequences ==
    \A c, d \in LogConsumers :
        (CaughtUp(c) /\ CaughtUp(d)) =>
            LET m == Max(subscribed_at[c], subscribed_at[d])
            IN  Since(delivered[c], m) = Since(delivered[d], m)

\* ------------------------------------------------------------------- C8
\* C8: a log-stream consumer receives a terminal event at most once, and
\* nothing after it: its stream is closed.
C8_ClosedAfterTerminal ==
    \A c \in LogConsumers :
        Holding(delivered[c], TerminalTypes) \subseteq {Len(delivered[c])}

\* ------------------------------------------------------------------- C9
\* C9: a log-stream consumer that has drained its queue has received every
\* event that was in the buffer when it subscribed and every event emitted
\* since.
C9_HistoryThenLive ==
    \A c \in LogConsumers :
        CaughtUp(c) =>
            \A i \in Max(1, subscribed_at[c] - max_events + 1)..clock :
                \E j \in DOMAIN delivered[c] : delivered[c][j].id = i

\* ------------------------------------------------------------------ C10
\* C10: the bucket never holds less than nothing nor more than max_tokens.
C10_TokensInRange == 0 <= tokens /\ tokens <= max_tokens

C10_Witness ==
    /\ stats.throttled_requests > 0
    /\ stats.total_requests > BurstSize
    /\ tokens < Unit

\* ------------------------------------------------------------------ C11
\* Callers between "async with self.lock" and the release of the lock.
InCriticalSection == {c \in Callers : apc[c] = "sleep"}

Returned == lpc = "done" /\ calls > 0

\* C12: an operation called with max_retries = n whose call fails with a
\* retryable error k < n times and then succeeds has returned success after
\* exactly k + 1 calls.
C12_SuccessAfterRetries ==
    \A k \in 0..(MaxAttempts - 1) :
        (/\ Returned /\ k < max_retries
         /\ \A i \in 1..k : Retryable(lop, script[i])
         /\ script[k + 1] = "ok")
        => (lresult = "success" /\ calls = k + 1 /\ Len(waits) = k)

C12_Witness ==
    /\ Returned /\ lop = "join_task" /\ max_retries = 3
    /\ script = <<"missing", "missing", "ok">>
    /\ lresult = "success" /\ calls = 3 /\ waits = <<1, 2>>

\* ------------------------------------------------------------------ C13
\* C13: an operation never sleeps after its last attempt, and one whose
\* max_retries calls all fail with a retryable error has returned failure
\* after exactly max_retries calls and max_retries - 1 sleeps.
C13_FailureAfterExhaustion ==
    /\ lpc = "wait" => calls < max_retries
    /\ (Returned /\ \A i \in 1..max_retries : Retryable(lop, script[i]))
        => (lresult = "failure" /\ calls = max_retries
            /\ Len(waits) = max_retries - 1)

C13_Witness ==
    /\ Returned /\ lop = "finish_task" /\ max_retries = 3
    /\ script = <<"nonce", "nonce", "nonce">>
    /\ lresult = "failure" /\ calls = 3 /\ waits = <<2, 4>>

\* ------------------------------------------------------------------ C14
\* C14: buy_agent_auth answered "already has authorization", at any attempt,
\* has returned success without a further call, and
\* register_agent_if_not_exists that found the agent registered has returned
\* success without registering it.
C14_AlreadyIsSuccess ==
    /\ (lop = "buy_agent_auth" /\ calls > 0 /\ script[calls] = "already")
        => (lpc = "done" /\ lresult = "success")
    /\ (lop = "register_agent_if_not_exists" /\ lpc = "done" /\ calls = 0)
        => lresult = "success"

C14_Witness ==
    /\ lop = "buy_agent_auth" /\ lpc = "done" /\ lresult = "success"
    /\ calls = 2 /\ script[1] = "nonce" /\ script[2] = "already"
    /\ waits = <<3>>

\* ------------------------------------------------------------------ C15
\* C15: join_task and async_join_task poll at most PollLimit times, call the
\* join only after a poll has returned True, return failure without any join
\* call when no poll did, and make at most max_retries join calls however
\* many polls were needed.
C15_PollBeforeJoin ==
    lop \in JoinOps =>
        /\ polls <= PollLimit
        /\ calls <= max_retries
        /\ calls > 0 => task_seen
        /\ lpc \in {"call", "wait"} => task_seen
        /\ (lpc = "done" /\ ~task_seen)
             => (lresult = "failure" /\ calls = 0 /\ polls = PollLimit)

C15_Witness ==
    /\ lop = "async_join_task" /\ lpc = "done"
    /\ polls = PollLimit /\ task_seen
    /\ calls = 3 /\ max_retries = 3

\* ------------------------------------------------------------------ C16
\* C16: a checklist that reports the draft insufficient makes the Run loop
\* back (its router does not fail), and when the synthesizer is reached again
\* after the first loop the revision count is 1.
C16_LoopCountsRevision ==
    /\ raisedBy # "route_after_checklist"
    /\ (pc = "synthesizer" /\ rounds = 1) => state.revisions = 1

\* ------------------------------------------------------------------ C17
\* C17: execute_streaming yields no event twice: each yielded event is one
\* emission.
C17_YieldedOnce ==
    \A i, j \in DOMAIN yielded : yielded[i].id = yielded[j].id => i = j

\* ------------------------------------------------------------------ C18
\* C18: a disconnecting consumer cancels only its own channel: the Run is
\* cancelled only when no other consumer of it remains, and delivery to the
\* consumers that remain is not stopped.
C18_CancelOnlyWhenLast ==
    pc = "cancelled" => \A c \in LogConsumers : cpc[c] \notin {"replay", "live"}

\* ------------------------------------------------------------------ C19
\* C19: the recent-events buffer never holds more than max_events events and
\* is always the last min(n, max_events) of the n events emitted so far, in
\* emission order.
C19_BufferIsLastEmitted ==
    /\ Len(recent_events) <= max_events
    /\ Len(recent_events) = Min(clock, max_events)
    /\ \A i \in DOMAIN recent_events :
          recent_events[i].id = clock - Len(recent_events) + i

\* An emission has evicted the oldest event.
C19_Witness ==
    /\ clock > max_events
    /\ Len(recent_events) = max_events
    /\ recent_events[1].id = clock - max_events + 1

\* ------------------------------------------------------------------ C20
SseBeat ==
    /\ Len(sse_out') = Len(sse_out) + 1
    /\ sse_out'[Len(sse_out')].event_type = "heartbeat"

LogBeat(c) ==
    /\ Len(delivered'[c]) = Len(delivered[c]) + 1
    /\ delivered'[c][Len(delivered'[c])].event_type = "heartbeat"

\* C20: a consumer receives a heartbeat only when no real event was delivered
\* to it during the interval that the heartbeat closes (the SSE client: none
\* since the previous heartbeat; a log-stream consumer: its queue stayed
\* empty), and no heartbeat is ever stored in the recent-events buffer.
C20_HeartbeatOnlyWhenIdle ==
    /\ [](\A i \in DOMAIN recent_events : recent_events[i].event_type # "heartbeat")
    /\ [][\A c \in LogConsumers : LogBeat(c) => event_queue[c] = <<>>]_vars
    /\ [][SseBeat => sse_quiet]_vars

\* ------------------------------------------------------------------ C21
\* C21: every event delivered to a stream consumer (the SSE client of a Run
\* or a log-stream consumer), heartbeats included, carries the four keys
\* event_type, data, timestamp and agent.
C21_FourFields ==
    /\ \A i \in DOMAIN sse_out : sse_out[i].keys = EventKeys
    /\ \A c \in LogConsumers : \A i \in DOMAIN delivered[c] :
          delivered[c][i].keys = EventKeys

\* ------------------------------------------------------------------ C22
\* C22: whenever the input validator rejects the question, POST /papers
\* answers 400.
C22_RejectionIs400 ==
    (ppc = "done" /\ pexc.by = "input_validator") => pstatus = 400

\* ------------------------------------------------------------------ C23
\* The value the replace policy gives field f after the partial states outs:
\* the one of the last partial state that returns f, else the initial one.
LastWrite(f, outs) ==
    LET writers == {i \in DOMAIN outs : f \in DOMAIN outs[i]} IN
    IF writers = {} THEN InitialState[f]
    ELSE outs[CHOOSE i \in writers : \A j \in writers : j <= i][f]

C24_TranscriptAdditive ==
    [][IF merged' # merged /\ "transcript" \in DOMAIN output
       THEN /\ Len(state'.transcript) = Len(state.transcript) + 1
            /\ SubSeq(state'.transcript, 1, Len(state.transcript)) = state.transcript
       ELSE state'.transcript = state.transcript]_vars

\* Both debate rounds have written the transcript.
C24_Witness ==
    /\ rounds = 1 /\ pc = "checklist" /\ phase = "run"
    /\ Len(state.transcript) >= 6
    /\ SubSeq(state.transcript, 1, 3) = <<"InputValidator", "Retriever", "Synthesizer">>
    /\ state.transcript[Len(state.transcript)] = "Challenger"

\* ------------------------------------------------------------------ C25
\* C25: revisions never decreases; it changes only when the output of the
\* orchestrator's REVISE or RESEARCH_AGAIN decision is merged, and then by
\* exactly one.
C25_RevisionsMonotone ==
    [][\/ state'.revisions = state.revisions
       \/ /\ state'.revisions = state.revisions + 1
          /\ pc = "orchestrator" /\ merged' # merged
          /\ "revisions" \in DOMAIN output
          /\ "final_answer" \notin DOMAIN output]_vars

\* A REVISE or RESEARCH_AGAIN decision has been merged.
C25_Witness ==
    /\ state.revisions = 1
    /\ "orchestrator" \in executed /\ pc = "publisher"

\* ------------------------------------------------------------------ C26
\* What the loop of execute_sync emits for one graph event.
SyncEmits(e) ==
    IF e.event = "on_chain_stream"
    THEN <<[event_type |-> TokenEvent(e.name), agent |-> e.name]>>
    ELSE IF CompletionEvent(e.name, e.output) = "none" THEN <<>>
    ELSE <<[event_type |-> CompletionEvent(e.name, e.output), agent |-> e.name]>>

RECURSIVE SyncEmitsAll(_)
SyncEmitsAll(es) ==
    IF es = <<>> THEN <<>> ELSE SyncEmits(Head(es)) \o SyncEmitsAll(Tail(es))

\* What execute_sync emits once the graph has ended: nothing or
\* research_failed after a normal end, the error event after a raise of a
\* node or a router.
SyncEnding ==
    IF pc = "done"
    THEN IF ~HasFinalAnswer(final_result) /\ ~research_completed_emitted
         THEN <<[event_type |-> "research_failed", agent |-> "system"]>> ELSE <<>>
    ELSE IF pc = "failed" /\ raisedBy # "execute_streaming"
    THEN IF raised = "ValueError"
         THEN <<[event_type |-> "validation_error", agent |-> "input_validator"]>>
         ELSE <<[event_type |-> "error", agent |-> "system"]>>
    ELSE <<>>

SyncEmitted ==
    IF pc = "idle" THEN <<>>
    ELSE <<[event_type |-> "research_started", agent |-> "system"]>>
         \o SyncEmitsAll(graph_events) \o SyncEnding

Emitted(recent) ==
    [i \in DOMAIN recent |->
        [event_type |-> recent[i].event_type, agent |-> recent[i].agent]]

\* The outcome a Run has ended in, "running" before.
Outcome ==
    IF pc = "done"
    THEN IF research_completed_emitted THEN "completed" ELSE "failed"
    ELSE IF pc = "failed" THEN "error" ELSE "running"

\* C26: whatever the entry point, the events emitted for the graph events
\* seen so far are those of the loop of execute_sync, in number and (for the
\* ones still in the buffer) in (event_type, agent), and the Run ends in
\* error only when the graph raised.
C26_SameCoreLoop ==
    /\ clock = Len(SyncEmitted)
    /\ Emitted(recent_events) = LastN(SyncEmitted, max_events)
    /\ Outcome = "error" => raisedBy \in Nodes \cup {"route_after_checklist"}

\* The same statement for the blocking entry point alone.
C26_SyncLoop == mode = "sync" => C26_SameCoreLoop

\* ------------------------------------------------------------------ C27
\* The step handles a token chunk of the running node.
TokenStep ==
    /\ Len(graph_events') = Len(graph_events) + 1
    /\ graph_events'[Len(graph_events')].event = "on_chain_stream"

\* C27: a token chunk of a streaming node changes no state field and not the
\* course of the Run (the node stays the running node, its final item stays
\* pending); the one item merged and routed on is the node's final item,
\* after all its token chunks.
C27_TokensAdvisory ==
    /\ [][TokenStep => state' = state /\ pc' = pc /\ output' = output]_vars
    /\ [][merged' # merged =>
            /\ chunks = 0
            /\ state' = Merge(state, output)
            /\ pc' = AfterNode(pc)]_vars

\* The same statement for the blocking entry point alone.
C27_SyncTokens ==
    [][(mode = "sync" /\ TokenStep) => state' = state /\ pc' = pc /\ output' = output]_vars

\* ------------------------------------------------------------------ C28
\* C28: one node at a time: a node starts only in a step after which the last
\* graph event is the end of the previously started node, whose output is
\* merged, and it is the only node the edges of that node trigger.
C28_OneNodeAtATime ==
    [][(pc' \in Nodes /\ pc' # pc /\ pc # "idle") =>
          /\ graph_events' # <<>>
          /\ Last(graph_events').event = "on_chain_end"
          /\ Last(graph_events').name \in executed
          /\ state' = Merge(state', Last(graph_events').output)
          /\ Triggered(Last(graph_events').name, state') = {pc'}]_vars

\* The reviser -> retriever loop has been taken: the retriever starts again.
C28_Witness ==
    /\ pc = "retriever" /\ phase = "run"
    /\ "reviser" \in executed
    /\ Last(graph_events).name = "reviser"

\* ------------------------------------------------------------------ C29
\* C29: a call answered with an error that is neither a nonce error nor a
\* "does not exist" race is the last call of the operation: it has returned
\* failure without a further wait, whatever attempts remain.
C29_NonRetryableFailsAtOnce ==
    \A i \in 1..calls :
        script[i] = "other" =>
            /\ calls = i
            /\ lpc = "done" /\ lresult = "failure"
            /\ Len(waits) = i - 1

\* The same statement for the synchronous operations alone.
C29_SyncFailsAtOnce == lop \in SyncOps => C29_NonRetryableFailsAtOnce

\* ------------------------------------------------------------------ C30
\* C30: the bucket shrinks and total_requests changes only in the step that
\* completes an acquire: there the bucket, refilled, held at least one token
\* (Unit), exactly one token is taken and total_requests grows by one.
C30_OneTokenPerAcquire ==
    [][(tokens' < tokens \/ stats'.total_requests # stats.total_requests) =>
          LET tk == tokens + (refilled' - refilled) IN
          /\ \E c \in Callers : apc[c] # "idle" /\ apc'[c] = "idle"
          /\ tk >= Unit
          /\ tokens' = tk - Unit
          /\ stats'.total_requests = stats.total_requests + 1]_vars

\* A HIGH caller has slept its halved wait more than once on the empty bucket
\* and then taken its token.
C30_Witness ==
    /\ \E c \in Callers : priority[c] = "HIGH" /\ apc[c] = "idle"
    /\ \A c \in Callers : priority[c] = "HIGH"
    /\ stats.throttled_requests >= 2
    /\ stats.total_requests = BurstSize + 1
    /\ tokens = 0

\* The events a step has emitted, oldest first.
IsNew(e) == e.id > clock

NewEvents == SelectSeq(recent_events', IsNew)

\* ------------------------------------------------------------------ C31
\* C31: a callback that raises affects neither the producer nor the other
\* subscribers: every emission made while the stop flag is clear is stored
\* as the newest event of the buffer and is put, once, on the queue of every
\* registered callback that does not raise, wherever the raising ones stand
\* in the list.
C31_RaisingCallbackIsolated ==
    [][(clock' > clock /\ ~stop_event) =>
          /\ NewEvents # <<>>
          /\ Last(recent_events').id = clock'
          /\ \A c \in Range(event_callbacks) \ raising :
                event_queue'[c] = event_queue[c] \o NewEvents]_vars

\* A callback that raises was registered first, the Run went on to its end
\* and the consumer registered after it has been handed a live event.
C31_Witness ==
    /\ event_callbacks = <<1, 2>> /\ 1 \in raising /\ 2 \notin raising
    /\ pc = "done" /\ raised = "none"
    /\ \E i \in DOMAIN delivered[2] : delivered[2][i].id > subscribed_at[2]

\* ------------------------------------------------------------------ C32
\* C32: the registered callbacks are those of the consumers that are
\* connected and past their replay: a consumer that has disconnected has no
\* callback left in the executor, so nothing is put on its queue any more.
C32_CallbacksAreConnected ==
    Range(event_callbacks) = {c \in LogConsumers : cpc[c] = "live"}

\* ------------------------------------------------------------------ C33
\* C33: every request the retriever sends to OpenAlex, arXiv or Semantic
\* Scholar comes right after a rate-limiter acquire for that source.
C33_AcquireBeforeSearch ==
    \A i \in DOMAIN net :
        net[i].op = "request" =>
            i > 1 /\ net[i - 1] = NetCall("acquire", net[i].source)

\* The part of C33 about the ledger: a mutating call is made inside the loop
\* "for attempt in range(max_retries)", so never more often than that.
C33_LedgerCallsBounded == calls <= max_retries

\* ------------------------------------------------------------------ C34
\* C34: every event emitted by any Run on the shared executor, the first or
\* a later one, is put on the queue of every registered callback.
C34_LaterRunsDelivered ==
    [][clock' > clock =>
          \A c \in Range(event_callbacks) :
              event_queue'[c] = event_queue[c] \o NewEvents]_vars

\* ------------------------------------------------------------------ C35
\* research_completed was emitted for a node of the Run in progress.
CompletedInRun ==
    \E i \in DOMAIN graph_events :
        /\ IsChainEnd(graph_events[i])
        /\ CompletionEvent(graph_events[i].name, graph_events[i].output)
              = "research_completed"

EndsNormally == pc = "finish" /\ pc' = "done"

\* C35: a Run that ends without an exception and without a final answer
\* emits research_failed, once, as it ends, whatever the Runs before it did;
\* a Run that has emitted research_completed does not emit research_failed.
C35_FailedEmittedPerRun ==
    [][EndsNormally =>
          /\ ~HasFinalAnswer(final_result) =>
                /\ clock' = clock + 1
                /\ Last(recent_events').event_type = "research_failed"
          /\ CompletedInRun => clock' = clock]_vars

\* ------------------------------------------------------------------ C36
\* C36: the event a subscriber's callback enqueues during a call of
\* _emit_event is the event that call built, also when another thread has
\* stored an event of its own in between.
C36_EnqueuesOwnEvent ==
    [][\A t \in Emitters :
          (epc[t] = "callbacks" /\ eidx'[t] = eidx[t] + 1) =>
              LET c == event_callbacks[eidx[t]] IN
              event_queue'[c] = Append(event_queue[c], eown[t])]_vars

C38_DeliveredToAllWhoWant ==
    [][Len(tx_queue') < Len(tx_queue) =>
          \A c \in TxConsumers :
              (tx_pc[c] = "connected" /\ Wants(c, Head(tx_queue))) =>
                  tx_out'[c] = Append(tx_out[c], Head(tx_queue))]_vars

\* ------------------------------------------------------------------ C39
\* C39: a call of async_finish_blockchain_operations that has returned has
\* emitted one transaction event: transaction_confirmed if async_finish_task
\* returned True, transaction_failed if not.
C39_OneEventPerFinish ==
    fin_pc = "returned" =>
        /\ Len(fin_events) = 1
        /\ fin_events[1].event_type =
              (IF finish_success THEN "transaction_confirmed" ELSE "transaction_failed")
        /\ fin_events[1].task_id = fin_task

\* ------------------------------------------------------------------ C40
JoinAttempted ==
    (vpc = "join" /\ lop = "join_task")
        \/ \E i \in DOMAIN vlog : vlog[i].op = "join_task"

\* C40: join_task is called only after create_task has returned success; a
\* failed create_task, after whatever retries, is followed by no join; and in
\* either case nothing is raised once the question is accepted: the node
\* returns validated_question, paper_id and task_id and the Run is at the
\* retriever next.
C40_JoinOnlyAfterCreate ==
    /\ JoinAttempted =>
          vlog # <<>> /\ vlog[1] = Called("create_task", "success")
    /\ (vlog # <<>> /\ vlog[1].result = "failure") =>
          Len(vlog) = 1 /\ ~JoinAttempted /\ vpc = "return"
    /\ raised # "none" => vpc = "idle"
    /\ vpc = "return" =>
          {"validated_question", "paper_id", "task_id"} \subseteq update_dict
    /\ pc = "retriever" => vpc = "return" /\ state.validated_question

\* create_task has used up its retries on nonce errors, no join followed and
\* the Run has reached the retriever.
C40_Witness ==
    /\ pc = "retriever" /\ raised = "none"
    /\ vlog = <<Called("create_task", "failure")>>
    /\ lop = "create_task" /\ calls = DefaultRetries

====
